---- MODULE Spec2Model ----
(***************************************************************************)
(* Model of the ingestion-and-enrichment data plane of click-ai:           *)
(*   - the pipelined embedding enricher (worker/embedding-enricher),       *)
(*   - the concurrent S3 loader (worker/s3-loader),                        *)
(*   - the session registry of the analysis platform (agent-plane/server), *)
(*   - its session builder (agent-plane/server/session_builder).           *)
(* Each component has its own specification over the shared variables; a   *)
(* component that a specification does not run stays in its initial state. *)
(***************************************************************************)
EXTENDS Integers, Sequences, FiniteSets, TLC

\* ---------------------------------------------------------------------
\* Bounds of the model
\* ---------------------------------------------------------------------
MaxSpans == 4       \* number of distinct spans that can be written to otel_traces
MaxBatch == 2       \* the enricher's BATCH_SIZE ranges over 1..MaxBatch
MaxFaults == 1      \* warehouse/encoder errors injected into one enricher run
MaxCrashes == 1     \* times the enricher process is killed and started again

MaxFiles == 2       \* .json objects that can appear under one signal prefix
MaxRows == 3        \* rows of the largest file
MaxLoaderFaults == 1 \* object-store/warehouse errors injected into one loader run

MaxCreates == 2     \* create_session calls in one run of the platform
MaxIds == 2         \* distinct values uuid4().hex[:12] can take

MaxMasterRows == 2  \* rows the master warehouse holds when a session is built
MaxTime == 2        \* timestamps 1..MaxTime, two to a day
MaxBuildFaults == 1 \* errors injected into one build_session call

MaxAttrs == 2       \* keys a span's SpanAttributes can have

MaxThreads == 3     \* threads calling the stock tracker
MaxStock == 2       \* units one (product, size) holds

\* the loader's config.BATCH_SIZE, scaled so that the largest file is written
\* as one full batch and a shorter tail batch
LoaderBatch == MaxRows - 1

\* queue.Queue(maxsize=2) of the enricher
QueueMaxSize == 2

VARIABLES
    source,         \* otel_traces: the set of span keys <<Timestamp, SpanId>>
    enriched,       \* otel_traces_enriched: the set of keys that have a row
    wm,             \* enricher_watermark, latest row under key 'global'
    batchSize,      \* config.BATCH_SIZE of the enricher
    ppc,            \* prefetch thread: position in prefetch_loop
    pWm,            \* prefetch thread: local (watermark_ts, watermark_span_id)
    pRows,          \* prefetch thread: local rows
    queue,          \* prefetch_q
    cpc,            \* compute loop: position in run
    cRows,          \* compute loop: local rows
    efaults,        \* number of errors raised so far in the enricher
    lastPassed,     \* history: key of the last row passed to enrich_and_insert
    failedRows      \* history: rows of the last cycle that raised, <<>> if none

VARIABLES
    crashes,        \* number of times the enricher process was killed so far
    crashedAt       \* history: position of the compute loop at the last kill

VARIABLES
    store,          \* object store: per signal prefix, the objects under it
    wmTable,        \* per signal: rows of its file watermark table
    chRows,         \* per signal: rows of its warehouse table, counted per file
    lpc,            \* per signal thread: position in signal_loop
    processed,      \* per signal thread: local processed
    newFiles,       \* per signal thread: local new_files
    fut,            \* per signal thread: state of the future of each key
    curKey,         \* per signal thread: key of the future being handled
    batchStart,     \* per signal thread: loop index i of insert_rows
    lfaults         \* number of errors raised so far in the loader

evars == <<source, enriched, wm, batchSize, ppc, pWm, pRows, queue, cpc, cRows,
           efaults, lastPassed, failedRows>>

lvars == <<store, wmTable, chRows, lpc, processed, newFiles, fut, curKey,
           batchStart, lfaults>>

VARIABLES
    sessions,       \* _sessions: session id -> descriptor object, 0 when absent
    descs,          \* the descriptor dicts ever created, by object
    bpc,            \* per create: position of its background task _run_build
    bref,           \* per create: local session of _run_build, 0 when unset
    dpc,            \* per user: position of the user's delete_session request
    dId,            \* per user: session_id of that request, 0 when none
    seen,           \* history: <<user, object>> when a response showed it to user
    removed         \* history: descriptor objects removed by delete_session

svars == <<sessions, descs, bpc, bref, dpc, dId, seen, removed>>

VARIABLES
    master,         \* master warehouse: the rows <<signal, service, timestamp>>
    req,            \* arguments of build_session: services, signal_types, start, end
    sdbExists,      \* session ClickHouse: database session_<id> exists
    stables,        \* session ClickHouse: per table, its rows, NoTable when absent
    detached,       \* per table: partitions whose parts lie in its detached/ dir
    shadow,         \* master volume, shadow/session_<id>: per table, frozen partitions
    bstep,          \* position in build_session / drop_session
    counts,         \* "counts" of the result of build_session
    manifest,       \* "manifest" of the result of build_session
    bfaults         \* number of errors raised so far in the builder

bvars == <<master, req, sdbExists, stables, detached, shadow, bstep, counts,
           manifest, bfaults>>

VARIABLES
    irRows,         \* insert_rows: its argument rows, a list of rows
    irB,            \* insert_rows: config.BATCH_SIZE
    irI,            \* insert_rows: the loop index i
    irBatches,      \* the warehouse table: the batches inserted, in order
    irPc            \* position in the processing of the file

ivars == <<irRows, irB, irI, irBatches, irPc>>

VARIABLES
    spanA,          \* a row of otel_traces passed to build_embedding_text
    spanB,          \* another such row
    textA,          \* the text returned for spanA, NoText before the call
    textB           \* the text returned for spanB, NoText before the call

tvars == <<spanA, spanB, textA, textB>>

VARIABLES
    kstock,         \* StockTracker._stock: (product, size) -> qty
    kstock0,        \* _stock when the calls began
    klock,          \* StockTracker._lock: the thread holding it, or Free
    kop,            \* per thread: the call it makes
    kpc,            \* per thread: its position in the call
    kcur,           \* per thread: try_reserve's local current
    kres            \* per thread: what its call returned

kvars == <<kstock, kstock0, klock, kop, kpc, kcur, kres>>

VARIABLES
    qwm,            \* sequential enricher: its enricher_watermark
    qhist,          \* history: the values qwm has taken, in order
    qenriched,      \* sequential enricher: keys of its otel_traces_enriched
    qpc,            \* sequential enricher: position in run()
    qrows           \* sequential enricher: local rows

qvars == <<qwm, qhist, qenriched, qpc, qrows>>

VARIABLES
    apc,            \* the ask request in flight: position in ask
    aReq,           \* the ask request in flight: its user and session_id
    aRef,           \* ask's local session: the descriptor it looked up
    aResp,          \* the response of the last ask request
    aSql            \* whether the request in flight had SQL generated

avars == <<apc, aReq, aRef, aResp, aSql>>

\* the variables of the components that run on their own
ovars == <<tvars, kvars, qvars, avars>>

rvars == <<crashes, crashedAt>>

\* the variables that no thread of the enricher writes
nonEnricherVars == <<lvars, rvars, svars, bvars, ivars, ovars>>

\* the variables that no thread of the loader writes
nonLoaderVars == <<evars, rvars, svars, bvars, ivars, ovars>>

\* the variables that no request handler or build task of the platform writes
nonSessionVars == <<evars, lvars, rvars, bvars, ivars, ovars>>

\* the variables that the session builder does not write
nonBuilderVars == <<evars, lvars, rvars, svars, ivars, ovars>>

\* the variables that insert_rows does not write
nonInsertVars == <<evars, lvars, rvars, svars, bvars, ovars>>

nonTextVars == <<evars, lvars, rvars, svars, bvars, ivars, kvars, qvars, avars>>
nonStockVars == <<evars, lvars, rvars, svars, bvars, ivars, tvars, qvars, avars>>
nonSeqVars == <<evars, lvars, rvars, svars, bvars, ivars, tvars, kvars, avars>>
nonAskVars == <<evars, lvars, rvars, bvars, ivars, tvars, kvars, qvars>>
vars == <<evars, lvars, rvars, svars, bvars, ivars, ovars>>

\* ---------------------------------------------------------------------
\* Span keys and their lexicographic order
\* ---------------------------------------------------------------------
\* the i-th span has key <<Timestamp, SpanId>>; two span ids per timestamp:
\* <<1,1>>, <<1,2>>, <<2,1>>, <<2,2>>, <<3,1>>, ...  (timestamp 0 is the epoch,
\* span id 0 the empty string)
Keys == {<<(i + 1) \div 2, ((i + 1) % 2) + 1>> : i \in 1..MaxSpans}

\* datetime(1970, 1, 1), "" : the watermark when the table is empty
Epoch == <<0, 0>>

\* (Timestamp, SpanId) > (ts, span_id) of FETCH_QUERY, as k1 < k2
KeyLess(k1, k2) == \/ k1[1] < k2[1]
                   \/ k1[1] = k2[1] /\ k1[2] < k2[2]

KeyLeq(k1, k2) == k1 = k2 \/ KeyLess(k1, k2)

MinKey(S) == CHOOSE k \in S : \A j \in S : KeyLeq(k, j)

MaxKey(S) == CHOOSE k \in S : \A j \in S : KeyLeq(j, k)

\* ORDER BY Timestamp, SpanId
RECURSIVE SortKeys(_)
SortKeys(S) == IF S = {} THEN <<>>
               ELSE <<MinKey(S)>> \o SortKeys(S \ {MinKey(S)})

\* LIMIT n
Limit(seq, n) == IF Len(seq) <= n THEN seq ELSE SubSeq(seq, 1, n)

KeySet(rows) == {rows[i] : i \in 1..Len(rows)}

Last(rows) == rows[Len(rows)]

\* a query that also returns the watermark row itself (>= for >)
PastWatermark_Inclusive(src, w) == {k \in src : KeyLeq(w, k)}

\* WHERE (Timestamp, SpanId) > (ts, span_id)
PastWatermark(src, w) == {k \in src : KeyLess(w, k)}

\* fetch_new_rows: the FETCH_QUERY evaluated on the table src
fetch_new_rows(src, w, n) == Limit(SortKeys(PastWatermark(src, w)), n)

\* the row whose key run() writes to the watermark: last = rows[-1]
WatermarkRow(rows) == Last(rows)

\* ---------------------------------------------------------------------
\* Loader: signal pipelines, objects, tables
\* ---------------------------------------------------------------------
\* SIGNAL_PIPELINES: the "name" of each pipeline; its s3_prefix, ch_table
\* and watermark_table are the components of store, chRows and wmTable
\* indexed by that name
Signals == {"traces", "logs", "metrics"}

\* object keys under one prefix: MaxFiles keys that end in .json and one
\* key that does not
JsonKeys == [id : 1..MaxFiles, ext : {".json"}]

OtherKeys == [id : {1}, ext : {".tmp"}]

ObjectKeys == JsonKeys \cup OtherKeys

\* number of rows a decodable body holds: none, or more than one batch
RowCounts == {0, MaxRows}

\* an object: its key and what unpack_fn makes of its body, rows decoded
\* rows when ok, an exception otherwise
Objects == [key : ObjectKeys, ok : BOOLEAN, rows : RowCounts]

\* key.endswith(".json")
EndsWithJson(k) == k.ext = ".json"

\* a listing that returns every key under the prefix
list_s3_files_AnySuffix(objs) == {o.key : o \in objs}

\* list_s3_files: the keys under the prefix that end in .json
list_s3_files(objs) == {o.key : o \in {x \in objs : EndsWithJson(x.key)}}

\* a watermark lookup that only counts files recorded done
get_processed_files_DoneOnly(table) ==
    {r.filename : r \in {x \in table : x.status = "done"}}

\* get_processed_files: SELECT Filename FROM watermark_table FINAL
get_processed_files(table) == {r.filename : r \in table}

\* a poll cycle that processes every listed file again
new_files_All(all, done) == all

\* new_files = [f for f in all_files if f not in processed]
new_files(all, done) == {f \in all : f \notin done}

\* the object stored under key k
ObjectAt(objs, k) == CHOOSE o \in objs : o.key = k

\* a batch loop that writes full batches only
BatchLen_FullOnly(n, i, b) == IF n - i >= b THEN b ELSE 0

\* len(rows[i : i + BATCH_SIZE]) for a list of n rows
BatchLen(n, i, b) == IF n - i >= b THEN b ELSE n - i

\* str(e) of the exception caught for a file
ErrorMessage == "str(e)"

\* record_watermark(ch, watermark_table, filename, status, row_count, error_msg)
WatermarkRowOf(k, status, n, msg) ==
    [filename |-> k, status |-> status, row_count |-> n, error_msg |-> msg]

NoFutures == [k \in ObjectKeys |-> "none"]

\* a key value for "no future is being handled"
NoKey == [id |-> 0, ext |-> ""]

\* ---------------------------------------------------------------------
\* Session registry: users, ids, descriptors
\* ---------------------------------------------------------------------
\* the users get_current_user can return
Users == {"alice", "bob"}

\* the values of uuid.uuid4().hex[:12]
SessionIds == 1..MaxIds

\* the descriptor dicts, in the order create_session builds them
Descriptors == 1..MaxCreates

\* a descriptor object that create_session has not built yet
NoDesc == [id |-> 0, user |-> "", status |-> "", manifest |-> "None",
           error |-> "None", conversation |-> <<>>]

\* the dict create_session stores under session_id
NewDesc(id, user) == [id |-> id, user |-> user, status |-> "building",
                      manifest |-> "None", error |-> "None", conversation |-> <<>>]

\* str(e) of the TypeError that the call of build_session raises:
\* _run_build passes db_path=, build_session takes session_id
BuildCallError == "build_session() got an unexpected keyword argument 'db_path'"

\* a response: the status code and the descriptor objects it shows
Response(code, body) == [code |-> code, body |-> body]

\* the descriptors create_session has built so far
Built(d) == {o \in Descriptors : d[o] # NoDesc}

\* not session or session["user"] != user
NotFound(reg, d, id, user) == reg[id] = 0 \/ d[reg[id]].user # user

\* state of the platform before any request
SessionsIdle ==
    /\ sessions = [id \in SessionIds |-> 0]
    /\ descs = [o \in Descriptors |-> NoDesc]
    /\ bpc = [o \in Descriptors |-> "none"]
    /\ bref = [o \in Descriptors |-> 0]
    /\ dpc = [u \in Users |-> "idle"]
    /\ dId = [u \in Users |-> 0]
    /\ seen = {}
    /\ removed = {}

\* ---------------------------------------------------------------------
\* Session builder: rows, partitions, requests
\* ---------------------------------------------------------------------
\* ServiceName values in the warehouse
Services == {"auth-service", "cart-service"}

Times == 1..MaxTime

\* toDate(Timestamp), the partition key of the three tables
Day(ts) == (ts + 1) \div 2

\* a row of otel_traces, otel_logs or otel_metrics: the signal of its table
\* (table_map), its ServiceName and its Timestamp
Rows == Signals \X Services \X Times

\* a table that was not created
NoTable == {<<"", "", 0>>}

\* the arguments of build_session (signal_types within table_map); the
\* services are a list of one service or the empty list
Requests == {r \in [services : {{}, {"auth-service"}}, signal_types : SUBSET Signals,
                     start : Times, end : Times] : r.start <= r.end}

NoRequest == [services |-> {}, signal_types |-> {}, start |-> 0, end |-> 0]

\* _date_values / _date_range: the days from start.date() to end.date()
date_range(start, end) == Day(start)..Day(end)

\* the rows of the part of table t in partition d on the master
PartRows(m, t, d) == {r \in m : r[1] = t /\ Day(r[3]) = d}

\* _get_master_parts: the active parts of t whose partition is among pids
\* (the ids of _date_range are taken to name the partitions of those days)
get_master_parts(m, t, pids) == {d \in pids : PartRows(m, t, d) # {}}

\* TABLES, and the loops over tables_to_ship, in this order
TableIndex(t) == CASE t = "traces" -> 1 [] t = "logs" -> 2 [] t = "metrics" -> 3

\* state of the builder when no session is being built
BuilderIdle ==
    /\ master = {}
    /\ req = NoRequest
    /\ sdbExists = FALSE
    /\ stables = [t \in Signals |-> NoTable]
    /\ detached = [t \in Signals |-> {}]
    /\ shadow = [t \in Signals |-> {}]
    /\ bstep = "off"
    /\ counts = <<>>
    /\ manifest = <<>>
    /\ bfaults = 0

\* ---------------------------------------------------------------------
\* build_embedding_text on a row of otel_traces
\* ---------------------------------------------------------------------
\* SpanAttributes: a map in its stored order, a list of distinct keys with
\* their values
AttrKeys == {"http.method", "http.route", "user.id"}

AttrLists ==
    {a \in UNION {[1..n -> [k : AttrKeys, v : {"x"}]] : n \in 0..MaxAttrs} :
        \A i, j \in 1..Len(a) : i # j => a[i].k # a[j].k}

\* Duration values in ns; the first two differ and read the same in ms
Durations == {1540000, 1460000, 250000}

\* the rows passed to build_embedding_text; TraceId stands for the columns
\* the function does not read
SpanRows == [ServiceName : {"auth-service"}, SpanName : {"GET /login"},
             SpanKind : {"SPAN_KIND_SERVER"},
             StatusCode : {"STATUS_CODE_OK", "STATUS_CODE_ERROR"},
             Duration : Durations, StatusMessage : {"", "timeout"},
             SpanAttributes : AttrLists, TraceId : {"t1", "t2"}]

\* f"{duration_ms:.1f}" for duration_ms = Duration / 1_000_000: the ms and
\* the rounded tenth of a ms
FormatMs(ns) == LET tenths == (ns + 50000) \div 100000
                IN  <<tenths \div 10, tenths % 10>>

Part(k, v) == [k |-> k, v |-> v]

\* for k, v in row.get("SpanAttributes", {}).items(): parts.append(f"{k}={v}")
AttrParts(attrs) == [i \in 1..Len(attrs) |-> Part(attrs[i].k, attrs[i].v)]

\* a text that always has a message part
build_embedding_text_AlwaysMessage(row) ==
    <<Part("service", row.ServiceName), Part("span", row.SpanName),
      Part("kind", row.SpanKind), Part("status", row.StatusCode),
      Part("duration", FormatMs(row.Duration)),
      Part("message", row.StatusMessage)>>
    \o AttrParts(row.SpanAttributes)

\* build_embedding_text: the parts that " ".join(parts) joins
build_embedding_text(row) ==
    <<Part("service", row.ServiceName), Part("span", row.SpanName),
      Part("kind", row.SpanKind), Part("status", row.StatusCode),
      Part("duration", FormatMs(row.Duration))>>
    \o (IF row.StatusMessage # "" THEN <<Part("message", row.StatusMessage)>> ELSE <<>>)
    \o AttrParts(row.SpanAttributes)

NoText == <<Part("", "")>>

\* no text is being built
TextIdle ==
    /\ spanA = Part("", "")
    /\ spanB = Part("", "")
    /\ textA = NoText
    /\ textB = NoText

\* ---------------------------------------------------------------------
\* StockTracker of the load generator
\* ---------------------------------------------------------------------
Threads == 1..MaxThreads

\* keys of _stock: one product of PRODUCTS in two of its SIZES
StockKeys == {<<"AJ1-CHI", "9">>, <<"AJ1-CHI", "10">>}

Free == 0

\* the calls a thread can make
StockCalls ==
    [op : {"try_reserve"}, key : StockKeys]
        \cup {[op |-> "get_stock", key |-> <<"AJ1-CHI", "9">>],
              [op |-> "reset_for_drop", key |-> <<"AJ1-CHI", "">>]}

NoResult == [success |-> FALSE, remaining |-> -1]

\* the dicts _stock can be: empty as __init__ leaves it, or with every size
\* of the product as reset_for_drop and later try_reserve calls leave it
StockMaps == UNION {[d -> 0..MaxStock] : d \in {{}, StockKeys}}

\* self._stock.get(key, 0)
StockGet(stock, key) == IF key \in DOMAIN stock THEN stock[key] ELSE 0

\* self._stock[key] = qty
StockSet(stock, key, qty) ==
    [k \in DOMAIN stock \cup {key} |-> IF k = key THEN qty ELSE stock[k]]

\* no stock tracker call is running
StockIdle ==
    /\ kstock = <<>>
    /\ kstock0 = <<>>
    /\ klock = Free
    /\ kop = <<>>
    /\ kpc = <<>>
    /\ kcur = <<>>
    /\ kres = <<>>

\* the sequential enricher is not running
SeqIdle ==
    /\ qwm = Epoch
    /\ qhist = <<>>
    /\ qenriched = {}
    /\ qpc = "off"
    /\ qrows = <<>>

NoAsk == [user |-> "", id |-> 0]

NoResponse == [code |-> 0, detail |-> ""]

\* no ask request has been made
AskIdle ==
    /\ apc = "idle"
    /\ aReq = NoAsk
    /\ aRef = 0
    /\ aResp = NoResponse
    /\ aSql = FALSE

OthersIdle == TextIdle /\ StockIdle /\ SeqIdle /\ AskIdle

\* ---------------------------------------------------------------------
\* insert_rows on the rows of one file
\* ---------------------------------------------------------------------
\* the values a decoded row can have
RowValues == {"a", "b"}

\* the row lists a file can decode to: up to MaxRows rows
RowLists == UNION {[1..n -> RowValues] : n \in 0..MaxRows}

\* a slice that always starts at the first row
Batch_FromStart(rows, i, b) == SubSeq(rows, 1, BatchLen(Len(rows), i, b))

\* batch = rows[i : i + config.BATCH_SIZE]
Batch(rows, i, b) == SubSeq(rows, i + 1, i + BatchLen(Len(rows), i, b))

\* no file is being inserted
InsertRowsIdle ==
    /\ irRows = <<>>
    /\ irB = 1
    /\ irI = 0
    /\ irBatches = <<>>
    /\ irPc = "off"

\* state of the loader before any signal thread is started
LoaderIdle ==
    /\ store = [s \in Signals |-> {}]
    /\ wmTable = [s \in Signals |-> {}]
    /\ chRows = [s \in Signals |-> [k \in ObjectKeys |-> 0]]
    /\ lpc = [s \in Signals |-> "off"]
    /\ processed = [s \in Signals |-> {}]
    /\ newFiles = [s \in Signals |-> {}]
    /\ fut = [s \in Signals |-> NoFutures]
    /\ curKey = [s \in Signals |-> NoKey]
    /\ batchStart = [s \in Signals |-> 0]
    /\ lfaults = 0

\* state of the enricher before it is started
EnricherIdle ==
    /\ source = {}
    /\ enriched = {}
    /\ wm = Epoch
    /\ batchSize = 1
    /\ ppc = "off"
    /\ pWm = Epoch
    /\ pRows = <<>>
    /\ queue = <<>>
    /\ cpc = "off"
    /\ cRows = <<>>
    /\ efaults = 0
    /\ lastPassed = Epoch
    /\ failedRows = <<>>
    /\ crashes = 0
    /\ crashedAt = "none"

\* run() has started the thread of the first pipeline of SIGNAL_PIPELINES
InitLoader ==
    /\ EnricherIdle
    /\ SessionsIdle
    /\ OthersIdle
    /\ InsertRowsIdle
    /\ BuilderIdle
    /\ store = [s \in Signals |-> {}]
    /\ wmTable = [s \in Signals |-> {}]
    /\ chRows = [s \in Signals |-> [k \in ObjectKeys |-> 0]]
    /\ lpc = [s \in Signals |-> IF s = "traces" THEN "load" ELSE "off"]
    /\ processed = [s \in Signals |-> {}]
    /\ newFiles = [s \in Signals |-> {}]
    /\ fut = [s \in Signals |-> NoFutures]
    /\ curKey = [s \in Signals |-> NoKey]
    /\ batchStart = [s \in Signals |-> 0]
    /\ lfaults = 0

\* ---------------------------------------------------------------------
\* Environment: the collector writes an object under the prefix of s
\* ---------------------------------------------------------------------
\* (an undecodable body has no rows; the object whose key does not end in
\* .json has a decodable body with rows)
PutObject(s) ==
    /\ lpc[s] # "off"
    /\ \E o \in Objects :
        /\ \A x \in store[s] : x.key # o.key
        /\ ~o.ok => o.rows = 0
        /\ ~EndsWithJson(o.key) => o.ok /\ o.rows = MaxRows
        /\ store' = [store EXCEPT ![s] = @ \cup {o}]
    /\ UNCHANGED <<nonLoaderVars, wmTable, chRows, lpc, processed, newFiles, fut, curKey,
                   batchStart, lfaults>>

\* ---------------------------------------------------------------------
\* Signal thread (signal_loop, process_files_concurrent, insert_rows)
\* ---------------------------------------------------------------------
\* processed = get_processed_files(ch, pipeline["watermark_table"])
LoaderLoad(s) ==
    /\ lpc[s] = "load"
    /\ processed' = [processed EXCEPT ![s] = get_processed_files(wmTable[s])]
    /\ lpc' = [lpc EXCEPT ![s] = "list"]
    /\ UNCHANGED <<nonLoaderVars, store, wmTable, chRows, newFiles, fut, curKey,
                   batchStart, lfaults>>

\* all_files = list_s3_files(...); new_files = [...]; if new_files: ... else: sleep idle
LoaderList(s) ==
    /\ lpc[s] = "list"
    /\ newFiles' = [newFiles EXCEPT ![s] = new_files(list_s3_files(store[s]), processed[s])]
    /\ lpc' = [lpc EXCEPT ![s] = IF newFiles'[s] # {} THEN "submit" ELSE "sleep_idle"]
    /\ UNCHANGED <<nonLoaderVars, store, wmTable, chRows, processed, fut, curKey,
                   batchStart, lfaults>>

\* get_processed_files or list_s3_files raises: Poll cycle error, sleep idle
LoaderPollError(s) ==
    /\ lpc[s] \in {"load", "list"}
    /\ lfaults < MaxLoaderFaults
    /\ lfaults' = lfaults + 1
    /\ lpc' = [lpc EXCEPT ![s] = "sleep_idle"]
    /\ UNCHANGED <<nonLoaderVars, store, wmTable, chRows, processed, newFiles, fut, curKey,
                   batchStart>>

\* futures = {executor.submit(download_and_parse, ...): key for key in sorted(new_files)}
\* (config.MAX_FILE_WORKERS, 16, exceeds MaxFiles: every call gets a pool thread at once)
LoaderSubmit(s) ==
    /\ lpc[s] = "submit"
    /\ fut' = [fut EXCEPT ![s] = [k \in ObjectKeys |->
                                    IF k \in newFiles[s] THEN "running" ELSE "none"]]
    /\ lpc' = [lpc EXCEPT ![s] = "collect"]
    /\ UNCHANGED <<nonLoaderVars, store, wmTable, chRows, processed, newFiles, curKey,
                   batchStart, lfaults>>

\* download_and_parse returns (key, rows), or unpack_fn raises on the body
WorkerFinish(s, k) ==
    /\ fut[s][k] = "running"
    /\ fut' = [fut EXCEPT ![s][k] = IF ObjectAt(store[s], k).ok THEN "ok" ELSE "exc"]
    /\ UNCHANGED <<nonLoaderVars, store, wmTable, chRows, lpc, processed, newFiles, curKey,
                   batchStart, lfaults>>

\* s3.get_object raises in download_and_parse
WorkerError(s, k) ==
    /\ fut[s][k] = "running"
    /\ lfaults < MaxLoaderFaults
    /\ lfaults' = lfaults + 1
    /\ fut' = [fut EXCEPT ![s][k] = "exc"]
    /\ UNCHANGED <<nonLoaderVars, store, wmTable, chRows, lpc, processed, newFiles, curKey,
                   batchStart>>

\* a loop that calls ch.insert for a file without rows as well
LoaderTake_InsertsEmpty(s) ==
    /\ lpc[s] = "collect"
    /\ \E k \in ObjectKeys :
        /\ fut[s][k] \in {"ok", "exc"}
        /\ curKey' = [curKey EXCEPT ![s] = k]
        /\ fut' = [fut EXCEPT ![s][k] = "taken"]
        /\ lpc' = [lpc EXCEPT ![s] = IF fut[s][k] = "exc" THEN "record_failed" ELSE "insert"]
    /\ batchStart' = [batchStart EXCEPT ![s] = 0]
    /\ UNCHANGED <<nonLoaderVars, store, wmTable, chRows, processed, newFiles, lfaults>>

\* a loop that gives up the remaining futures when one file has failed
LoaderTake_DropsRest(s) ==
    /\ lpc[s] = "collect"
    /\ \E k \in ObjectKeys :
        /\ fut[s][k] \in {"ok", "exc"}
        /\ curKey' = [curKey EXCEPT ![s] = k]
        /\ fut' = [fut EXCEPT ![s] = [x \in ObjectKeys |->
                     IF x = k \/ (fut[s][k] = "exc" /\ fut[s][x] # "none")
                     THEN "taken" ELSE fut[s][x]]]
        /\ lpc' = [lpc EXCEPT ![s] =
                     IF fut[s][k] = "exc" THEN "record_failed"
                     ELSE IF ObjectAt(store[s], k).rows = 0 THEN "record_done"
                     ELSE "insert"]
    /\ batchStart' = [batchStart EXCEPT ![s] = 0]
    /\ UNCHANGED <<nonLoaderVars, store, wmTable, chRows, processed, newFiles, lfaults>>

\* for future in as_completed(futures): key = futures[future]; future.result();
\* insert_rows returns at once when rows is empty
LoaderTake(s) ==
    /\ lpc[s] = "collect"
    /\ \E k \in ObjectKeys :
        /\ fut[s][k] \in {"ok", "exc"}
        /\ curKey' = [curKey EXCEPT ![s] = k]
        /\ fut' = [fut EXCEPT ![s][k] = "taken"]
        /\ lpc' = [lpc EXCEPT ![s] =
                     IF fut[s][k] = "exc" THEN "record_failed"
                     ELSE IF ObjectAt(store[s], k).rows = 0 THEN "record_done"
                     ELSE "insert"]
    /\ batchStart' = [batchStart EXCEPT ![s] = 0]
    /\ UNCHANGED <<nonLoaderVars, store, wmTable, chRows, processed, newFiles, lfaults>>

\* batch = rows[i : i + BATCH_SIZE]; ch.insert(table, ...); next i
LoaderInsertBatch(s) ==
    /\ lpc[s] = "insert"
    /\ LET n == ObjectAt(store[s], curKey[s]).rows
           i == batchStart[s]
       IN /\ chRows' = [chRows EXCEPT ![s][curKey[s]] = @ + BatchLen(n, i, LoaderBatch)]
          /\ batchStart' = [batchStart EXCEPT ![s] = IF i + LoaderBatch < n THEN i + LoaderBatch ELSE 0]
          /\ lpc' = [lpc EXCEPT ![s] = IF i + LoaderBatch < n THEN "insert"
                                       ELSE "record_done"]
    /\ UNCHANGED <<nonLoaderVars, store, wmTable, processed, newFiles, fut, curKey, lfaults>>

\* ch.insert raises in insert_rows: the batch is not written, except clause
LoaderInsertError(s) ==
    /\ lpc[s] = "insert"
    /\ lfaults < MaxLoaderFaults
    /\ lfaults' = lfaults + 1
    /\ lpc' = [lpc EXCEPT ![s] = "record_failed"]
    /\ batchStart' = [batchStart EXCEPT ![s] = 0]
    /\ UNCHANGED <<nonLoaderVars, store, wmTable, chRows, processed, newFiles, fut, curKey>>

\* a watermark write that goes to one table shared by the signals
LoaderRecordDone_SharedTable(s) ==
    /\ lpc[s] = "record_done"
    /\ wmTable' = [x \in Signals |-> wmTable[x] \cup
          {WatermarkRowOf(curKey[s], "done", ObjectAt(store[s], curKey[s]).rows, "")}]
    /\ lpc' = [lpc EXCEPT ![s] = "collect"]
    /\ curKey' = [curKey EXCEPT ![s] = NoKey]
    /\ UNCHANGED <<nonLoaderVars, store, chRows, processed, newFiles, fut, batchStart,
                   lfaults>>

\* record_watermark(ch, watermark_table, key, "done", len(rows))
LoaderRecordDone(s) ==
    /\ lpc[s] = "record_done"
    /\ wmTable' = [wmTable EXCEPT ![s] = @ \cup
          {WatermarkRowOf(curKey[s], "done", ObjectAt(store[s], curKey[s]).rows, "")}]
    /\ lpc' = [lpc EXCEPT ![s] = "collect"]
    /\ curKey' = [curKey EXCEPT ![s] = NoKey]
    /\ UNCHANGED <<nonLoaderVars, store, chRows, processed, newFiles, fut, batchStart,
                   lfaults>>

\* record_watermark(..., "done", ...) raises: except clause
LoaderRecordDoneError(s) ==
    /\ lpc[s] = "record_done"
    /\ lfaults < MaxLoaderFaults
    /\ lfaults' = lfaults + 1
    /\ lpc' = [lpc EXCEPT ![s] = "record_failed"]
    /\ UNCHANGED <<nonLoaderVars, store, wmTable, chRows, processed, newFiles, fut, curKey,
                   batchStart>>

\* an except clause that only logs
LoaderRecordFailed_LogOnly(s) ==
    /\ lpc[s] = "record_failed"
    /\ lpc' = [lpc EXCEPT ![s] = "collect"]
    /\ curKey' = [curKey EXCEPT ![s] = NoKey]
    /\ UNCHANGED <<nonLoaderVars, store, wmTable, chRows, processed, newFiles, fut, batchStart,
                   lfaults>>

\* except Exception as e: record_watermark(ch, watermark_table, key, "failed", 0, str(e))
LoaderRecordFailed(s) ==
    /\ lpc[s] = "record_failed"
    /\ wmTable' = [wmTable EXCEPT ![s] = @ \cup {WatermarkRowOf(curKey[s], "failed", 0, ErrorMessage)}]
    /\ lpc' = [lpc EXCEPT ![s] = "collect"]
    /\ curKey' = [curKey EXCEPT ![s] = NoKey]
    /\ UNCHANGED <<nonLoaderVars, store, chRows, processed, newFiles, fut, batchStart,
                   lfaults>>

\* record_watermark(..., "failed", ...) raises inside the except clause: the
\* exception leaves process_files_concurrent through the with block
LoaderRecordFailedError(s) ==
    /\ lpc[s] = "record_failed"
    /\ lfaults < MaxLoaderFaults
    /\ lfaults' = lfaults + 1
    /\ lpc' = [lpc EXCEPT ![s] = "drain"]
    /\ curKey' = [curKey EXCEPT ![s] = NoKey]
    /\ UNCHANGED <<nonLoaderVars, store, wmTable, chRows, processed, newFiles, fut, batchStart>>

\* a with block that does not wait for the submitted calls
LoaderDrain_NoWait(s) ==
    /\ lpc[s] = "drain"
    /\ lpc' = [lpc EXCEPT ![s] = "sleep_idle"]
    /\ UNCHANGED <<nonLoaderVars, store, wmTable, chRows, processed, newFiles, fut, curKey,
                   batchStart, lfaults>>

\* ThreadPoolExecutor.__exit__ waits for every submitted call, then the
\* exception reaches signal_loop (the futures are dropped): Poll cycle error,
\* sleep idle
LoaderDrain(s) ==
    /\ lpc[s] = "drain"
    /\ \A k \in ObjectKeys : fut[s][k] # "running"
    /\ lpc' = [lpc EXCEPT ![s] = "sleep_idle"]
    /\ fut' = [fut EXCEPT ![s] = NoFutures]
    /\ UNCHANGED <<nonLoaderVars, store, wmTable, chRows, processed, newFiles, curKey,
                   batchStart, lfaults>>

\* as_completed is exhausted, the with block ends and process_files_concurrent
\* returns (the futures are dropped); sleep busy
LoaderBatchComplete(s) ==
    /\ lpc[s] = "collect"
    /\ \A k \in newFiles[s] : fut[s][k] = "taken"
    /\ lpc' = [lpc EXCEPT ![s] = "sleep_busy"]
    /\ fut' = [fut EXCEPT ![s] = NoFutures]
    /\ UNCHANGED <<nonLoaderVars, store, wmTable, chRows, processed, newFiles, curKey,
                   batchStart, lfaults>>

\* time.sleep(POLL_INTERVAL_BUSY or POLL_INTERVAL_IDLE), then the next cycle
LoaderSleep(s) ==
    /\ lpc[s] \in {"sleep_busy", "sleep_idle"}
    /\ lpc' = [lpc EXCEPT ![s] = "load"]
    /\ UNCHANGED <<nonLoaderVars, store, wmTable, chRows, processed, newFiles, fut, curKey,
                   batchStart, lfaults>>

SignalThread(s) == \/ LoaderLoad(s)
                   \/ LoaderList(s)
                   \/ LoaderSubmit(s)
                   \/ LoaderTake(s)
                   \/ LoaderInsertBatch(s)
                   \/ LoaderRecordDone(s)
                   \/ LoaderRecordFailed(s)
                   \/ LoaderDrain(s)
                   \/ LoaderBatchComplete(s)
                   \/ LoaderSleep(s)

PoolWorkers(s) == \E k \in ObjectKeys : WorkerFinish(s, k)

LoaderError(s) == \/ LoaderPollError(s)
                  \/ LoaderInsertError(s)
                  \/ LoaderRecordDoneError(s)
                  \/ LoaderRecordFailedError(s)
                  \/ \E k \in ObjectKeys : WorkerError(s, k)

NextLoader == \E s \in Signals : \/ PutObject(s)
                                 \/ SignalThread(s)
                                 \/ PoolWorkers(s)
                                 \/ LoaderError(s)

\* one signal pipeline of the concurrent loader and the object store
SpecLoader == InitLoader /\ [][NextLoader]_vars

\* the signal thread and its pool threads keep running
LoaderFairness == \A s \in Signals : WF_vars(SignalThread(s)) /\ WF_vars(PoolWorkers(s))

FairSpecLoader == SpecLoader /\ LoaderFairness

\* ---------------------------------------------------------------------
\* One file in the loop of process_files_concurrent, row by row
\* ---------------------------------------------------------------------
\* future.result() has returned the rows of a file; insert_rows is called
\* with them, for some batch size
InitInsertRows ==
    /\ EnricherIdle
    /\ LoaderIdle
    /\ SessionsIdle
    /\ OthersIdle
    /\ BuilderIdle
    /\ irRows \in RowLists
    /\ irB \in 1..MaxRows
    /\ irI = 0
    /\ irBatches = <<>>
    /\ irPc = "insert_rows"

\* if not rows: return
InsertRowsEmpty ==
    /\ irPc = "insert_rows"
    /\ irRows = <<>>
    /\ irPc' = "record_done"
    /\ UNCHANGED <<nonInsertVars, irRows, irB, irI, irBatches>>

\* for i in range(0, len(rows), BATCH_SIZE): batch = rows[i : i + BATCH_SIZE];
\* ch.insert(table, ...); the loop ends, and insert_rows returns, when the
\* range is exhausted
InsertRowsBatch ==
    /\ irPc = "insert_rows"
    /\ irRows # <<>>
    /\ irBatches' = Append(irBatches, Batch(irRows, irI, irB))
    /\ irI' = irI + irB
    /\ irPc' = IF irI + irB < Len(irRows) THEN "insert_rows" ELSE "record_done"
    /\ UNCHANGED <<nonInsertVars, irRows, irB>>

\* ch.insert raises: the batch is not written, the exception leaves
\* insert_rows and reaches the except clause of the file
InsertRowsError ==
    /\ irPc = "insert_rows"
    /\ irRows # <<>>
    /\ irPc' = "record_failed"
    /\ UNCHANGED <<nonInsertVars, irRows, irB, irI, irBatches>>

\* record_watermark(..., key, "done", len(rows)), or in the except clause
\* record_watermark(..., key, "failed", 0, str(e))
InsertRowsRecord ==
    /\ irPc \in {"record_done", "record_failed"}
    /\ irPc' = IF irPc = "record_done" THEN "done" ELSE "failed"
    /\ UNCHANGED <<nonInsertVars, irRows, irB, irI, irBatches>>

NextInsertRows == \/ InsertRowsEmpty
                  \/ InsertRowsBatch
                  \/ InsertRowsError
                  \/ InsertRowsRecord

\* insert_rows on the rows of one file, up to the watermark entry of the file
SpecInsertRows == InitInsertRows /\ [][NextInsertRows]_vars

\* ---------------------------------------------------------------------
\* enrich_and_insert builds the texts of two rows
\* ---------------------------------------------------------------------
InitText ==
    /\ EnricherIdle
    /\ LoaderIdle
    /\ SessionsIdle
    /\ BuilderIdle
    /\ InsertRowsIdle
    /\ StockIdle
    /\ SeqIdle
    /\ AskIdle
    /\ spanA \in SpanRows
    /\ spanB \in SpanRows
    /\ textA = NoText
    /\ textB = NoText

\* texts = [build_embedding_text(row) for row in rows], first row
BuildTextA ==
    /\ textA = NoText
    /\ textA' = build_embedding_text(spanA)
    /\ UNCHANGED <<nonTextVars, spanA, spanB, textB>>

\* texts = [build_embedding_text(row) for row in rows], second row
BuildTextB ==
    /\ textA # NoText
    /\ textB = NoText
    /\ textB' = build_embedding_text(spanB)
    /\ UNCHANGED <<nonTextVars, spanA, spanB, textA>>

NextText == BuildTextA \/ BuildTextB

\* build_embedding_text applied to two rows
SpecText == InitText /\ [][NextText]_vars

\* ---------------------------------------------------------------------
\* Threads calling one StockTracker
\* ---------------------------------------------------------------------
InitStock ==
    /\ EnricherIdle
    /\ LoaderIdle
    /\ SessionsIdle
    /\ BuilderIdle
    /\ InsertRowsIdle
    /\ TextIdle
    /\ SeqIdle
    /\ AskIdle
    /\ kstock \in StockMaps
    /\ kstock0 = kstock
    /\ klock = Free
    /\ kop \in [Threads -> StockCalls]
    /\ kpc = [t \in Threads |-> "call"]
    /\ kcur = [t \in Threads |-> 0]
    /\ kres = [t \in Threads |-> NoResult]

\* a lock that any thread acquires at once, held or not
LockAcquire_NoExclusion(t) ==
    /\ kpc[t] = "call"
    /\ klock' = t
    /\ kpc' = [kpc EXCEPT ![t] = "locked"]
    /\ UNCHANGED <<nonStockVars, kstock, kstock0, kop, kcur, kres>>

\* with self._lock: the thread enters when no thread holds the lock
LockAcquire(t) ==
    /\ kpc[t] = "call"
    /\ klock = Free
    /\ klock' = t
    /\ kpc' = [kpc EXCEPT ![t] = "locked"]
    /\ UNCHANGED <<nonStockVars, kstock, kstock0, kop, kcur, kres>>

\* try_reserve: current = self._stock.get(key, 0)
ReserveRead(t) ==
    /\ kpc[t] = "locked"
    /\ kop[t].op = "try_reserve"
    /\ kcur' = [kcur EXCEPT ![t] = StockGet(kstock, kop[t].key)]
    /\ kpc' = [kpc EXCEPT ![t] = "read"]
    /\ UNCHANGED <<nonStockVars, kstock, kstock0, klock, kop, kres>>

\* try_reserve: return False, 0 when current <= 0, else store current - 1
\* and return True, current - 1; the with block releases the lock
ReserveWrite(t) ==
    /\ kpc[t] = "read"
    /\ IF kcur[t] <= 0
       THEN /\ kres' = [kres EXCEPT ![t] = [success |-> FALSE, remaining |-> 0]]
            /\ UNCHANGED kstock
       ELSE /\ kstock' = StockSet(kstock, kop[t].key, kcur[t] - 1)
            /\ kres' = [kres EXCEPT ![t] = [success |-> TRUE, remaining |-> kcur[t] - 1]]
    /\ klock' = IF klock = t THEN Free ELSE klock
    /\ kpc' = [kpc EXCEPT ![t] = "done"]
    /\ kcur' = [kcur EXCEPT ![t] = 0]
    /\ UNCHANGED <<nonStockVars, kstock0, kop>>

\* get_stock: return self._stock.get((product_id, size), 0)
GetStock(t) ==
    /\ kpc[t] = "locked"
    /\ kop[t].op = "get_stock"
    /\ kres' = [kres EXCEPT ![t] = [success |-> TRUE,
                                     remaining |-> StockGet(kstock, kop[t].key)]]
    /\ klock' = IF klock = t THEN Free ELSE klock
    /\ kpc' = [kpc EXCEPT ![t] = "done"]
    /\ UNCHANGED <<nonStockVars, kstock, kstock0, kop, kcur>>

\* reset_for_drop: every size gets max(1, int(base * weight * uniform))
ResetForDrop(t) ==
    /\ kpc[t] = "locked"
    /\ kop[t].op = "reset_for_drop"
    /\ kstock' \in [StockKeys -> 1..MaxStock]
    /\ klock' = IF klock = t THEN Free ELSE klock
    /\ kpc' = [kpc EXCEPT ![t] = "done"]
    /\ UNCHANGED <<nonStockVars, kstock0, kop, kcur, kres>>

NextStock ==
    \E t \in Threads :
        \/ LockAcquire(t)
        \/ ReserveRead(t)
        \/ ReserveWrite(t)
        \/ GetStock(t)
        \/ ResetForDrop(t)

\* concurrent calls of one StockTracker
SpecStock == InitStock /\ [][NextStock]_vars

\* ---------------------------------------------------------------------
\* The three signal threads of run(), each with objects under its prefix
\* ---------------------------------------------------------------------
\* objects under the three prefixes: a file of rows under the traces prefix,
\* another under the logs prefix, a file that does not parse under the
\* metrics prefix
SeededStore ==
    [s \in Signals |->
        CASE s = "traces" -> {[key |-> [id |-> 1, ext |-> ".json"], ok |-> TRUE, rows |-> MaxRows]}
          [] s = "logs" -> {[key |-> [id |-> 2, ext |-> ".json"], ok |-> TRUE, rows |-> MaxRows]}
          [] s = "metrics" -> {[key |-> [id |-> 1, ext |-> ".json"], ok |-> FALSE, rows |-> 0]}]

\* for pipeline in SIGNAL_PIPELINES: threading.Thread(target=signal_loop, ...).start()
InitPipelines ==
    /\ EnricherIdle
    /\ SessionsIdle
    /\ OthersIdle
    /\ InsertRowsIdle
    /\ BuilderIdle
    /\ store = SeededStore
    /\ wmTable = [s \in Signals |-> {}]
    /\ chRows = [s \in Signals |-> [k \in ObjectKeys |-> 0]]
    /\ lpc = [s \in Signals |-> "load"]
    /\ processed = [s \in Signals |-> {}]
    /\ newFiles = [s \in Signals |-> {}]
    /\ fut = [s \in Signals |-> NoFutures]
    /\ curKey = [s \in Signals |-> NoKey]
    /\ batchStart = [s \in Signals |-> 0]
    /\ lfaults = 0

NextPipelines == \E s \in Signals : \/ SignalThread(s)
                                    \/ PoolWorkers(s)
                                    \/ LoaderError(s)

\* the three signal pipelines side by side
SpecPipelines == InitPipelines /\ [][NextPipelines]_vars

\* ---------------------------------------------------------------------
\* Start of a signal thread: its clients
\* ---------------------------------------------------------------------
\* run() has started the thread of the first pipeline, which has not created
\* its clients yet
InitLoaderStart ==
    /\ EnricherIdle
    /\ SessionsIdle
    /\ OthersIdle
    /\ InsertRowsIdle
    /\ BuilderIdle
    /\ store = [s \in Signals |-> {}]
    /\ wmTable = [s \in Signals |-> {}]
    /\ chRows = [s \in Signals |-> [k \in ObjectKeys |-> 0]]
    /\ lpc = [s \in Signals |-> IF s = "traces" THEN "connect" ELSE "off"]
    /\ processed = [s \in Signals |-> {}]
    /\ newFiles = [s \in Signals |-> {}]
    /\ fut = [s \in Signals |-> NoFutures]
    /\ curKey = [s \in Signals |-> NoKey]
    /\ batchStart = [s \in Signals |-> 0]
    /\ lfaults = 0

\* s3 = get_s3_client(); ch = get_ch_client(), before the while loop
LoaderConnect(s) ==
    /\ lpc[s] = "connect"
    /\ lpc' = [lpc EXCEPT ![s] = "load"]
    /\ UNCHANGED <<nonLoaderVars, store, wmTable, chRows, processed, newFiles, fut, curKey,
                   batchStart, lfaults>>

\* get_s3_client or get_ch_client raises (the warehouse does not answer):
\* the calls are outside the try of the loop, the exception ends signal_loop
\* and with it the thread
LoaderConnectError(s) ==
    /\ lpc[s] = "connect"
    /\ lfaults < MaxLoaderFaults
    /\ lfaults' = lfaults + 1
    /\ lpc' = [lpc EXCEPT ![s] = "dead"]
    /\ UNCHANGED <<nonLoaderVars, store, wmTable, chRows, processed, newFiles, fut, curKey,
                   batchStart>>

NextLoaderStart == \/ NextLoader
                   \/ \E s \in Signals : LoaderConnect(s) \/ LoaderConnectError(s)

\* one signal pipeline of the loader from the first statement of signal_loop
SpecLoaderStart == InitLoaderStart /\ [][NextLoaderStart]_vars

\* ---------------------------------------------------------------------
\* The loader process receives a shutdown signal
\* ---------------------------------------------------------------------
\* no handler is installed and signal_loop tests no stop flag: SIGTERM ends
\* the process; SIGINT raises KeyboardInterrupt in the main thread at
\* t.join(), run() ends and the daemon signal threads are ended with the
\* interpreter wherever they are. The calls already running on pool threads
\* run to their end (WorkerFinish), nobody collects their results.
LoaderShutdown ==
    /\ \E s \in Signals : lpc[s] \notin {"off", "killed"}
    /\ lpc' = [s \in Signals |-> IF lpc[s] = "off" THEN "off" ELSE "killed"]
    /\ UNCHANGED <<nonLoaderVars, store, wmTable, chRows, processed, newFiles, fut,
                   curKey, batchStart, lfaults>>

NextLoaderShutdown == NextLoader \/ LoaderShutdown

\* one signal pipeline of the loader, shut down at any moment
SpecLoaderShutdown == InitLoader /\ [][NextLoaderShutdown]_vars

\* ---------------------------------------------------------------------
\* Enricher: initial state
\* ---------------------------------------------------------------------
EInitEnricher ==
    /\ enriched = {}
    /\ wm = Epoch
    /\ batchSize \in 1..MaxBatch
    /\ ppc = "read_wm"
    /\ pWm = Epoch
    /\ pRows = <<>>
    /\ queue = <<>>
    /\ cpc = "get"
    /\ cRows = <<>>
    /\ efaults = 0
    /\ lastPassed = Epoch
    /\ failedRows = <<>>
    /\ crashes = 0
    /\ crashedAt = "none"

EInitCommon ==
    /\ EInitEnricher
    /\ LoaderIdle
    /\ SessionsIdle
    /\ OthersIdle
    /\ InsertRowsIdle
    /\ BuilderIdle

\* the enricher starts on an empty otel_traces that the loader fills
Init == source = {} /\ EInitCommon

\* the enricher starts on a seeded otel_traces that nobody modifies
InitStatic == source \in SUBSET Keys /\ EInitCommon

\* ---------------------------------------------------------------------
\* Environment: the loader inserts a span into otel_traces
\* ---------------------------------------------------------------------
AddSpan ==
    /\ \E k \in Keys \ source : source' = source \cup {k}
    /\ UNCHANGED <<nonEnricherVars, enriched, wm, batchSize, ppc, pWm, pRows, queue, cpc, cRows,
                   efaults, lastPassed, failedRows>>

\* ---------------------------------------------------------------------
\* Prefetch thread (prefetch_loop)
\* ---------------------------------------------------------------------
\* stop_event.is_set(): run() sets the event in its finally clause, on its
\* way out of the compute loop
stop_event_is_set == cpc = "exited"

\* while not stop_event.is_set(): watermark_ts, watermark_span_id = get_watermark(ch)
PrefetchReadWatermark ==
    /\ ppc = "read_wm"
    /\ ~stop_event_is_set
    /\ pWm' = wm
    /\ ppc' = "fetch"
    /\ UNCHANGED <<nonEnricherVars, source, enriched, wm, batchSize, pRows, queue, cpc, cRows,
                   efaults, lastPassed, failedRows>>

\* rows = fetch_new_rows(ch, watermark_ts, watermark_span_id); if rows: ...
PrefetchFetch ==
    /\ ppc = "fetch"
    /\ pRows' = fetch_new_rows(source, pWm, batchSize)
    /\ ppc' = IF pRows' # <<>> THEN "put" ELSE "sleep"
    /\ UNCHANGED <<nonEnricherVars, source, enriched, wm, batchSize, pWm, queue, cpc, cRows,
                   efaults, lastPassed, failedRows>>

\* a put that does not wait for room in the queue
PrefetchPut_NoBlock ==
    /\ ppc = "put"
    /\ queue' = Append(queue, pRows)
    /\ ppc' = "read_wm"
    /\ UNCHANGED <<nonEnricherVars, source, enriched, wm, batchSize, pWm, pRows, cpc, cRows,
                   efaults, lastPassed, failedRows>>

\* prefetch_queue.put(rows): blocks while the queue is full
PrefetchPut ==
    /\ ppc = "put"
    /\ Len(queue) < QueueMaxSize
    /\ queue' = Append(queue, pRows)
    /\ ppc' = "read_wm"
    /\ UNCHANGED <<nonEnricherVars, source, enriched, wm, batchSize, pWm, pRows, cpc, cRows,
                   efaults, lastPassed, failedRows>>

\* time.sleep(config.POLL_INTERVAL), then the next iteration
PrefetchSleep ==
    /\ ppc = "sleep"
    /\ ppc' = "read_wm"
    /\ UNCHANGED <<nonEnricherVars, source, enriched, wm, batchSize, pWm, pRows, queue, cpc, cRows,
                   efaults, lastPassed, failedRows>>

\* get_watermark or fetch_new_rows raises: except Exception, log, sleep
PrefetchError ==
    /\ ppc \in {"read_wm", "fetch"}
    /\ ppc = "read_wm" => ~stop_event_is_set
    /\ efaults < MaxFaults
    /\ efaults' = efaults + 1
    /\ ppc' = "sleep"
    /\ UNCHANGED <<nonEnricherVars, source, enriched, wm, batchSize, pWm, pRows, queue, cpc, cRows,
                   lastPassed, failedRows>>

\* ---------------------------------------------------------------------
\* Compute loop (run)
\* ---------------------------------------------------------------------
\* rows = prefetch_q.get(timeout=...); on queue.Empty: continue
ComputeGet ==
    /\ cpc = "get"
    /\ queue # <<>>
    /\ cRows' = Head(queue)
    /\ queue' = Tail(queue)
    /\ cpc' = "enrich"
    /\ UNCHANGED <<nonEnricherVars, source, enriched, wm, batchSize, ppc, pWm, pRows,
                   efaults, lastPassed, failedRows>>

\* a cycle that writes the watermark first and inserts the rows after it
ComputeEnrich_WatermarkFirst ==
    \/ /\ cpc = "enrich"
       /\ wm' = WatermarkRow(cRows)
       /\ cpc' = "insert_late"
       /\ UNCHANGED <<nonEnricherVars, source, enriched, batchSize, ppc, pWm, pRows, queue,
                      cRows, efaults, lastPassed, failedRows>>
    \/ /\ cpc = "insert_late"
       /\ enriched' = enriched \cup KeySet(cRows)
       /\ lastPassed' = Last(cRows)
       /\ cpc' = "update_wm"
       /\ UNCHANGED <<nonEnricherVars, source, wm, batchSize, ppc, pWm, pRows, queue, cRows,
                      efaults, failedRows>>

\* enrich_and_insert(ch, model, rows) returns: all rows are inserted
ComputeEnrich ==
    /\ cpc = "enrich"
    /\ enriched' = enriched \cup KeySet(cRows)
    /\ lastPassed' = Last(cRows)
    /\ cpc' = "update_wm"
    /\ UNCHANGED <<nonEnricherVars, source, wm, batchSize, ppc, pWm, pRows, queue, cRows,
                   efaults, failedRows>>

\* an error path that still advances the watermark (update in a finally)
ComputeEnrichError_Advances ==
    /\ cpc = "enrich"
    /\ efaults < MaxFaults
    /\ efaults' = efaults + 1
    /\ lastPassed' = Last(cRows)
    /\ failedRows' = cRows
    /\ wm' = WatermarkRow(cRows)
    /\ cpc' = "get"
    /\ UNCHANGED <<nonEnricherVars, source, enriched, batchSize, ppc, pWm, pRows, queue, cRows>>

\* model.encode or ch.insert raises inside enrich_and_insert: nothing is
\* inserted, the except clause logs and the loop goes on with the next get
ComputeEnrichError ==
    /\ cpc = "enrich"
    /\ efaults < MaxFaults
    /\ efaults' = efaults + 1
    /\ lastPassed' = Last(cRows)
    /\ failedRows' = cRows
    /\ cpc' = "get"
    /\ UNCHANGED <<nonEnricherVars, source, enriched, wm, batchSize, ppc, pWm, pRows, queue, cRows>>

\* last = rows[-1]; update_watermark(ch, last["Timestamp"], last["SpanId"])
ComputeUpdateWatermark ==
    /\ cpc = "update_wm"
    /\ wm' = WatermarkRow(cRows)
    /\ cpc' = "get"
    /\ UNCHANGED <<nonEnricherVars, source, enriched, batchSize, ppc, pWm, pRows, queue, cRows,
                   efaults, lastPassed, failedRows>>

\* update_watermark raises after the rows were inserted
ComputeUpdateWatermarkError ==
    /\ cpc = "update_wm"
    /\ efaults < MaxFaults
    /\ efaults' = efaults + 1
    /\ failedRows' = cRows
    /\ cpc' = "get"
    /\ UNCHANGED <<nonEnricherVars, source, enriched, wm, batchSize, ppc, pWm, pRows, queue, cRows,
                   lastPassed>>

Prefetch == \/ PrefetchReadWatermark
            \/ PrefetchFetch
            \/ PrefetchPut
            \/ PrefetchSleep

Compute == \/ ComputeGet
           \/ ComputeEnrich
           \/ ComputeUpdateWatermark

EnricherError == \/ PrefetchError
                 \/ ComputeEnrichError
                 \/ ComputeUpdateWatermarkError

NextStatic == Prefetch \/ Compute \/ EnricherError

Next == AddSpan \/ NextStatic

\* the pipelined enricher while the loader writes to otel_traces
Spec == Init /\ [][Next]_vars

\* the pipelined enricher on an unmodified otel_traces
SpecStatic == InitStatic /\ [][NextStatic]_vars

\* ---------------------------------------------------------------------
\* The sequential enricher (src/embedding-enricher), run on the same
\* otel_traces with tables of its own
\* ---------------------------------------------------------------------
InitBoth ==
    /\ source \in SUBSET Keys
    /\ EInitEnricher
    /\ LoaderIdle
    /\ SessionsIdle
    /\ InsertRowsIdle
    /\ BuilderIdle
    /\ TextIdle
    /\ StockIdle
    /\ AskIdle
    /\ qwm = Epoch
    /\ qhist = <<Epoch>>
    /\ qenriched = {}
    /\ qpc = "fetch"
    /\ qrows = <<>>

\* watermark_ts, watermark_span_id = get_watermark(ch);
\* rows = fetch_new_rows(ch, watermark_ts, watermark_span_id); if rows: ...
SeqFetch ==
    /\ qpc = "fetch"
    /\ qrows' = fetch_new_rows(source, qwm, batchSize)
    /\ qpc' = IF qrows' # <<>> THEN "enrich" ELSE "sleep"
    /\ UNCHANGED <<nonSeqVars, qwm, qhist, qenriched>>

\* enrich_and_insert(ch, model, rows)
SeqEnrich ==
    /\ qpc = "enrich"
    /\ qenriched' = qenriched \cup KeySet(qrows)
    /\ qpc' = "update_wm"
    /\ UNCHANGED <<nonSeqVars, qwm, qhist, qrows>>

\* a watermark update that writes the first row of the batch
SeqUpdateWatermark_FirstRow ==
    /\ qpc = "update_wm"
    /\ qwm' = Head(qrows)
    /\ qhist' = IF qwm' # qwm THEN Append(qhist, qwm') ELSE qhist
    /\ qpc' = "sleep"
    /\ UNCHANGED <<nonSeqVars, qenriched, qrows>>

\* last = rows[-1]; update_watermark(ch, last["Timestamp"], last["SpanId"])
SeqUpdateWatermark ==
    /\ qpc = "update_wm"
    /\ qwm' = WatermarkRow(qrows)
    /\ qhist' = IF qwm' # qwm THEN Append(qhist, qwm') ELSE qhist
    /\ qpc' = "sleep"
    /\ UNCHANGED <<nonSeqVars, qenriched, qrows>>

\* time.sleep(config.POLL_INTERVAL), then the next iteration
SeqSleep ==
    /\ qpc = "sleep"
    /\ qpc' = "fetch"
    /\ UNCHANGED <<nonSeqVars, qwm, qhist, qenriched, qrows>>

NextSeq == SeqFetch \/ SeqEnrich \/ SeqUpdateWatermark \/ SeqSleep

NextBoth == NextStatic \/ NextSeq

\* the pipelined and the sequential enricher, each run on the same unmodified
\* otel_traces
SpecBoth == InitBoth /\ [][NextBoth]_vars

\* both threads keep running (errors are bounded by MaxFaults)
EnricherFairness == WF_vars(Prefetch) /\ WF_vars(Compute)

FairSpec == Spec /\ EnricherFairness

FairSpecStatic == SpecStatic /\ EnricherFairness

\* ---------------------------------------------------------------------
\* The enricher process is killed and started again
\* ---------------------------------------------------------------------
\* the process dies wherever its threads are; the tables otel_traces,
\* otel_traces_enriched and enricher_watermark keep what was written; run()
\* starts again with a new queue and a new prefetch thread
KillAndRestart ==
    /\ crashes < MaxCrashes
    /\ crashes' = crashes + 1
    /\ crashedAt' = cpc
    /\ ppc' = "read_wm"
    /\ pWm' = Epoch
    /\ pRows' = <<>>
    /\ queue' = <<>>
    /\ cpc' = "get"
    /\ cRows' = <<>>
    /\ lastPassed' = Epoch
    /\ failedRows' = <<>>
    /\ UNCHANGED <<lvars, svars, bvars, ivars, ovars, source, enriched, wm, batchSize, efaults>>

NextRestart == NextStatic \/ KillAndRestart

\* the pipelined enricher on an unmodified otel_traces, killed and restarted
\* at most MaxCrashes times
SpecRestart == InitStatic /\ [][NextRestart]_vars

FairSpecRestart == SpecRestart /\ EnricherFairness

\* ---------------------------------------------------------------------
\* The enricher process receives a shutdown signal
\* ---------------------------------------------------------------------
\* no handler is installed: SIGINT raises KeyboardInterrupt in the main
\* thread wherever the compute loop is; `except Exception` does not catch
\* it, the finally clause sets stop_event and run() ends with the batch in
\* hand left as it is (SIGTERM ends the process without the finally clause)
EnricherInterrupt ==
    /\ cpc \in {"get", "enrich", "update_wm"}
    /\ crashedAt' = cpc
    /\ cpc' = "exited"
    /\ UNCHANGED <<lvars, svars, bvars, ivars, ovars, crashes, source, enriched, wm, batchSize, ppc, pWm,
                   pRows, queue, cRows, efaults, lastPassed, failedRows>>

\* while not stop_event.is_set() is false: prefetch_loop returns
PrefetchExit ==
    /\ ppc = "read_wm"
    /\ stop_event_is_set
    /\ ppc' = "exited"
    /\ UNCHANGED <<nonEnricherVars, source, enriched, wm, batchSize, pWm, pRows, queue, cpc,
                   cRows, efaults, lastPassed, failedRows>>

NextShutdown == NextStatic \/ EnricherInterrupt \/ PrefetchExit

\* the pipelined enricher on an unmodified otel_traces, shut down at any moment
SpecShutdown == InitStatic /\ [][NextShutdown]_vars

\* ---------------------------------------------------------------------
\* Session registry: request handlers (sessions.py, analysis.py)
\* ---------------------------------------------------------------------
\* the platform is up, no request was served yet
InitSessions ==
    /\ EnricherIdle
    /\ LoaderIdle
    /\ SessionsIdle
    /\ OthersIdle
    /\ InsertRowsIdle
    /\ BuilderIdle

\* what a response shows to user u
Shown(u, r) == {<<u, o>> : o \in r.body}

\* the ids uuid4().hex[:12] has returned so far
Allocated(d) == {d[o].id : o \in Built(d)}

\* session_id = uuid.uuid4().hex[:12]: any id, one returned before or a new
\* one (ids are opaque: the smallest unused id stands for any new value)
uuid4_hex12(d) ==
    Allocated(d) \cup {id \in SessionIds \ Allocated(d) :
                          \A j \in SessionIds \ Allocated(d) : id <= j}

\* create_session: _sessions[session_id] = {...} without a look at what is
\* stored under session_id; bg.add_task(_run_build, ...); the response is
\* the new descriptor
CreateSession(u, id) ==
    /\ Built(descs) # Descriptors
    /\ id \in uuid4_hex12(descs)
    /\ LET o == CHOOSE x \in Descriptors \ Built(descs) :
                    \A y \in Descriptors \ Built(descs) : x <= y
       IN /\ sessions' = [sessions EXCEPT ![id] = o]
          /\ descs' = [descs EXCEPT ![o] = NewDesc(id, u)]
          /\ bpc' = [bpc EXCEPT ![o] = "scheduled"]
          /\ seen' = seen \cup Shown(u, Response(200, {o}))
    /\ UNCHANGED <<nonSessionVars, bref, dpc, dId, removed>>

\* list_sessions: the descriptors in _sessions.values() with s["user"] == user
list_sessions(reg, d, u) ==
    Response(200, {reg[id] : id \in {i \in SessionIds : reg[i] # 0 /\ d[reg[i]].user = u}})

ListSessions(u) ==
    /\ seen' = seen \cup Shown(u, list_sessions(sessions, descs, u))
    /\ UNCHANGED <<nonSessionVars, sessions, descs, bpc, bref, dpc, dId, removed>>

\* get_session: 404 unless the session exists and belongs to user
get_session(reg, d, id, u) ==
    IF NotFound(reg, d, id, u) THEN Response(404, {}) ELSE Response(200, {reg[id]})

GetSession(u, id) ==
    /\ seen' = seen \cup Shown(u, get_session(sessions, descs, id, u))
    /\ UNCHANGED <<nonSessionVars, sessions, descs, bpc, bref, dpc, dId, removed>>

\* delete_session, first part: session = _sessions.get(session_id); 404
\* unless it exists and belongs to user
DeleteCheck(u, id) ==
    /\ dpc[u] = "idle"
    /\ IF NotFound(sessions, descs, id, u)
       THEN UNCHANGED <<dpc, dId>>
       ELSE /\ dpc' = [dpc EXCEPT ![u] = "del"]
            /\ dId' = [dId EXCEPT ![u] = id]
    /\ UNCHANGED <<nonSessionVars, sessions, descs, bpc, bref, seen, removed>>

\* delete_session, second part: the two unlink(missing_ok=True) calls name
\* files that nothing creates; del _sessions[session_id] raises KeyError
\* (a 500 response) when the id is no longer registered
DeleteRemove(u) ==
    /\ dpc[u] = "del"
    /\ IF sessions[dId[u]] = 0
       THEN UNCHANGED <<sessions, removed>>
       ELSE /\ sessions' = [sessions EXCEPT ![dId[u]] = 0]
            /\ removed' = removed \cup {sessions[dId[u]]}
    /\ dpc' = [dpc EXCEPT ![u] = "idle"]
    /\ dId' = [dId EXCEPT ![u] = 0]
    /\ UNCHANGED <<nonSessionVars, descs, bpc, bref, seen>>

\* ask up to its checks: 404 unless owned, 400 unless status is "ready",
\* 400 without a manifest, else 0: SQL is generated and executed
ask_check(reg, d, id, u) ==
    IF NotFound(reg, d, id, u) THEN 404
    ELSE IF d[reg[id]].status # "ready" THEN 400
    ELSE IF d[reg[id]].manifest = "None" THEN 400
    ELSE 0

\* ask: after the checks the LLM writes SQL, it is executed, and the exchange
\* is appended to the conversation (502 or 400 when the LLM or the query fails)
Ask(u, id) ==
    /\ IF ask_check(sessions, descs, id, u) # 0
       THEN UNCHANGED descs
       ELSE \E code \in {200, 400, 502} :
                descs' = IF code = 200
                         THEN [descs EXCEPT ![sessions[id]].conversation =
                                                Append(@, "question")]
                         ELSE descs
    /\ UNCHANGED <<nonSessionVars, sessions, bpc, bref, dpc, dId, seen, removed>>

\* get_history: 404 unless owned, else the conversation of the session
get_history(reg, d, id, u) ==
    IF NotFound(reg, d, id, u) THEN Response(404, {}) ELSE Response(200, {reg[id]})

GetHistory(u, id) ==
    /\ seen' = seen \cup Shown(u, get_history(sessions, descs, id, u))
    /\ UNCHANGED <<nonSessionVars, sessions, descs, bpc, bref, dpc, dId, removed>>

\* ---------------------------------------------------------------------
\* Session registry: the background task _run_build of the create of o
\* ---------------------------------------------------------------------
\* session = _sessions[session_id], outside the try: KeyError leaves the task
RunBuildLookup(o) ==
    /\ bpc[o] = "scheduled"
    /\ IF sessions[descs[o].id] = 0
       THEN /\ bpc' = [bpc EXCEPT ![o] = "raised"]
            /\ UNCHANGED bref
       ELSE /\ bref' = [bref EXCEPT ![o] = sessions[descs[o].id]]
            /\ bpc' = [bpc EXCEPT ![o] = "call"]
    /\ UNCHANGED <<nonSessionVars, sessions, descs, dpc, dId, seen, removed>>

\* build_session(db_path=..., ...) raises TypeError before its body runs;
\* except Exception as e: session["status"] = "error"
RunBuildCall(o) ==
    /\ bpc[o] = "call"
    /\ descs' = [descs EXCEPT ![bref[o]].status = "error"]
    /\ bpc' = [bpc EXCEPT ![o] = "set_error"]
    /\ UNCHANGED <<nonSessionVars, sessions, bref, dpc, dId, seen, removed>>

\* an except clause that falls through to the assignments of the success path
RunBuildSetError_FallsThrough(o) ==
    /\ bpc[o] = "set_error"
    /\ descs' = [descs EXCEPT ![bref[o]].error = BuildCallError,
                              ![bref[o]].status = "ready"]
    /\ bpc' = [bpc EXCEPT ![o] = "done"]
    /\ UNCHANGED <<nonSessionVars, sessions, bref, dpc, dId, seen, removed>>

\* session["error"] = str(e); log.exception(...)
RunBuildSetError(o) ==
    /\ bpc[o] = "set_error"
    /\ descs' = [descs EXCEPT ![bref[o]].error = BuildCallError]
    /\ bpc' = [bpc EXCEPT ![o] = "done"]
    /\ UNCHANGED <<nonSessionVars, sessions, bref, dpc, dId, seen, removed>>

Handlers == \E u \in Users :
                \/ ListSessions(u)
                \/ DeleteRemove(u)
                \/ \E id \in SessionIds : \/ CreateSession(u, id)
                                           \/ GetSession(u, id)
                                           \/ DeleteCheck(u, id)
                                           \/ Ask(u, id)
                                           \/ GetHistory(u, id)

BuildTasks == \E o \in Descriptors : \/ RunBuildLookup(o)
                                      \/ RunBuildCall(o)
                                      \/ RunBuildSetError(o)

NextSessions == Handlers \/ BuildTasks

\* the platform serving requests of its users
SpecSessions == InitSessions /\ [][NextSessions]_vars

\* ---------------------------------------------------------------------
\* Session builder: build_session and drop_session (session_builder.py)
\* ---------------------------------------------------------------------
\* build_session is called with a request on a master warehouse that holds
\* at most MaxMasterRows rows; nothing of the session exists yet
InitBuilder ==
    /\ EnricherIdle
    /\ LoaderIdle
    /\ SessionsIdle
    /\ OthersIdle
    /\ InsertRowsIdle
    /\ master \in {m \in SUBSET Rows : Cardinality(m) <= MaxMasterRows}
    /\ req \in Requests
    /\ sdbExists = FALSE
    /\ stables = [t \in Signals |-> NoTable]
    /\ detached = [t \in Signals |-> {}]
    /\ shadow = [t \in Signals |-> {}]
    /\ bstep = "create"
    /\ counts = <<>>
    /\ manifest = <<>>
    /\ bfaults = 0

\* the partitions of table t that the request covers and the master holds
Covered(t) == get_master_parts(master, t, date_range(req.start, req.end))

\* 1. _create_session_db: CREATE DATABASE, CREATE TABLE per requested signal
BuildCreateDb ==
    /\ bstep = "create"
    /\ sdbExists' = TRUE
    /\ stables' = [t \in Signals |-> IF t \in req.signal_types THEN {} ELSE NoTable]
    /\ bstep' = "freeze"
    /\ UNCHANGED <<nonBuilderVars, master, req, detached, shadow, counts, manifest, bfaults>>

\* a client cannot connect or a command of _create_session_db raises: the
\* database may or may not exist, build_session raises
BuildCreateDbError ==
    /\ bstep = "create"
    /\ bfaults < MaxBuildFaults
    /\ bfaults' = bfaults + 1
    /\ sdbExists' \in BOOLEAN
    /\ bstep' = "raised"
    /\ UNCHANGED <<nonBuilderVars, master, req, stables, detached, shadow, counts, manifest>>

\* 2. _freeze_partitions for every table to ship: FREEZE PARTITION ... WITH
\* NAME 'session_<id>' writes the parts of every covered partition to shadow/
BuildFreeze ==
    /\ bstep = "freeze"
    /\ shadow' = [t \in Signals |-> IF t \in req.signal_types THEN Covered(t) ELSE {}]
    /\ bstep' = "copy"
    /\ UNCHANGED <<nonBuilderVars, master, req, sdbExists, stables, detached, counts,
                   manifest, bfaults>>

\* one FREEZE raises: logged at debug level, the partition is not frozen
BuildFreezeError ==
    /\ bstep = "freeze"
    /\ bfaults < MaxBuildFaults
    /\ bfaults' = bfaults + 1
    /\ \E ft \in req.signal_types : \E fd \in Covered(ft) :
          shadow' = [t \in Signals |-> IF t \in req.signal_types
                                        THEN Covered(t) \ (IF t = ft THEN {fd} ELSE {})
                                        ELSE {}]
    /\ bstep' = "copy"
    /\ UNCHANGED <<nonBuilderVars, master, req, sdbExists, stables, detached, counts, manifest>>

\* what _copy_parts copies for table t: the listed parts found under shadow/
Copied(t) == {d \in Covered(t) : d \in shadow[t]}

\* 3. per table: _get_master_parts, _get_session_table_data_path, _copy_parts
BuildCopy ==
    /\ bstep = "copy"
    /\ detached' = [t \in Signals |-> IF t \in req.signal_types THEN Copied(t) ELSE {}]
    /\ bstep' = "attach"
    /\ UNCHANGED <<nonBuilderVars, master, req, sdbExists, stables, shadow, counts,
                   manifest, bfaults>>

\* the query of the parts, the lookup of the data path or a copy raises for
\* table ft: the tables before it are copied, build_session raises
BuildCopyError ==
    /\ bstep = "copy"
    /\ bfaults < MaxBuildFaults
    /\ bfaults' = bfaults + 1
    /\ \E ft \in req.signal_types :
          detached' = [t \in Signals |->
                          IF t \in req.signal_types /\ TableIndex(t) < TableIndex(ft)
                          THEN Copied(t) ELSE {}]
    /\ bstep' = "raised"
    /\ UNCHANGED <<nonBuilderVars, master, req, sdbExists, stables, shadow, counts, manifest>>

\* the rows of the parts of the partitions ds of table t
RowsOf(t, ds) == {r \in master : r[1] = t /\ Day(r[3]) \in ds}

\* 4. _attach_parts: ATTACH PARTITION ID for every partition id of the range
BuildAttach ==
    /\ bstep = "attach"
    /\ stables' = [t \in Signals |-> IF t \in req.signal_types
                                       THEN stables[t] \cup RowsOf(t, detached[t])
                                       ELSE stables[t]]
    /\ detached' = [t \in Signals |-> {}]
    /\ bstep' = "cleanup"
    /\ UNCHANGED <<nonBuilderVars, master, req, sdbExists, shadow, counts, manifest, bfaults>>

\* one ATTACH raises: logged at debug level, the parts stay in detached/
BuildAttachError ==
    /\ bstep = "attach"
    /\ bfaults < MaxBuildFaults
    /\ bfaults' = bfaults + 1
    /\ \E ft \in req.signal_types : \E fd \in detached[ft] :
          /\ stables' = [t \in Signals |->
                            IF t \in req.signal_types
                            THEN stables[t] \cup RowsOf(t, detached[t] \ (IF t = ft THEN {fd} ELSE {}))
                            ELSE stables[t]]
          /\ detached' = [t \in Signals |-> IF t = ft THEN {fd} ELSE {}]
    /\ bstep' = "cleanup"
    /\ UNCHANGED <<nonBuilderVars, master, req, sdbExists, shadow, counts, manifest>>

\* 5. _cleanup_shadow: shutil.rmtree(shadow/session_<id>) if it exists
BuildCleanupShadow ==
    /\ bstep = "cleanup"
    /\ shadow' = [t \in Signals |-> {}]
    /\ bstep' = "counts"
    /\ UNCHANGED <<nonBuilderVars, master, req, sdbExists, stables, detached, counts,
                   manifest, bfaults>>

\* shutil.rmtree raises: build_session raises, the backup stays
BuildCleanupShadowError ==
    /\ bstep = "cleanup"
    /\ \E t \in Signals : shadow[t] # {}
    /\ bfaults < MaxBuildFaults
    /\ bfaults' = bfaults + 1
    /\ bstep' = "raised"
    /\ UNCHANGED <<nonBuilderVars, master, req, sdbExists, stables, detached, shadow,
                   counts, manifest>>

\* SELECT count() FROM `session_<id>`.table
CountOf(t) == IF stables[t] = NoTable THEN 0 ELSE Cardinality(stables[t])

\* 6. counts[signal] for every requested signal
BuildCounts ==
    /\ bstep = "counts"
    /\ counts' = [s \in req.signal_types |-> CountOf(s)]
    /\ bstep' = "manifest"
    /\ UNCHANGED <<nonBuilderVars, master, req, sdbExists, stables, detached, shadow,
                   manifest, bfaults>>

\* one count query raises: except Exception: counts[signal] = 0
BuildCountsError ==
    /\ bstep = "counts"
    /\ bfaults < MaxBuildFaults
    /\ bfaults' = bfaults + 1
    /\ \E fs \in req.signal_types :
          counts' = [s \in req.signal_types |-> IF s = fs THEN 0 ELSE CountOf(s)]
    /\ bstep' = "manifest"
    /\ UNCHANGED <<nonBuilderVars, master, req, sdbExists, stables, detached, shadow, manifest>>

\* min(3, n): the rows of SELECT * ... LIMIT 3
SampleSize(n) == IF n < 3 THEN n ELSE 3

\* the manifest entry of a table with n rows (the columns are those of the DDL)
ManifestEntry(n) == [row_count |-> n, sample_rows |-> SampleSize(n)]

\* 7. _build_manifest over TABLES: an absent table raises and is skipped, an
\* empty table is skipped; then return {"counts": ..., "manifest": ...}
BuildManifest ==
    /\ bstep = "manifest"
    /\ manifest' = [t \in {x \in Signals : CountOf(x) > 0} |-> ManifestEntry(CountOf(t))]
    /\ bstep' = "returned"
    /\ UNCHANGED <<nonBuilderVars, master, req, sdbExists, stables, detached, shadow,
                   counts, bfaults>>

\* a query of _build_manifest raises for one table: logged, the table is skipped
BuildManifestError ==
    /\ bstep = "manifest"
    /\ bfaults < MaxBuildFaults
    /\ bfaults' = bfaults + 1
    /\ \E ft \in {x \in Signals : CountOf(x) > 0} :
          manifest' = [t \in {x \in Signals : CountOf(x) > 0} \ {ft} |->
                          ManifestEntry(CountOf(t))]
    /\ bstep' = "returned"
    /\ UNCHANGED <<nonBuilderVars, master, req, sdbExists, stables, detached, shadow, counts>>

\* drop_session after build_session has returned or raised: DROP DATABASE IF
\* EXISTS removes the database, its tables and their directories
DropSession ==
    /\ bstep \in {"returned", "raised"}
    /\ sdbExists' = FALSE
    /\ stables' = [t \in Signals |-> NoTable]
    /\ detached' = [t \in Signals |-> {}]
    /\ bstep' = "dropped"
    /\ UNCHANGED <<nonBuilderVars, master, req, shadow, counts, manifest, bfaults>>

BuildSteps == \/ BuildCreateDb
              \/ BuildFreeze
              \/ BuildCopy
              \/ BuildAttach
              \/ BuildCleanupShadow
              \/ BuildCounts
              \/ BuildManifest

BuildErrors == \/ BuildCreateDbError
               \/ BuildFreezeError
               \/ BuildCopyError
               \/ BuildAttachError
               \/ BuildCleanupShadowError
               \/ BuildCountsError
               \/ BuildManifestError

NextBuilder == BuildSteps \/ BuildErrors \/ DropSession

\* one call of build_session, followed by drop_session
SpecBuilder == InitBuilder /\ [][NextBuilder]_vars

\* ---------------------------------------------------------------------
\* ask requests while sessions are created and their builds run
\* ---------------------------------------------------------------------
InitAsk ==
    /\ EnricherIdle
    /\ LoaderIdle
    /\ SessionsIdle
    /\ InsertRowsIdle
    /\ BuilderIdle
    /\ TextIdle
    /\ StockIdle
    /\ SeqIdle
    /\ AskIdle

\* session = _sessions.get(session_id); 404 unless it exists and belongs to user
AskLookup(u, id) ==
    /\ apc = "idle"
    /\ aReq' = [user |-> u, id |-> id]
    /\ aSql' = FALSE
    /\ IF NotFound(sessions, descs, id, u)
       THEN /\ aResp' = [code |-> 404, detail |-> "Session not found"]
            /\ UNCHANGED <<apc, aRef>>
       ELSE /\ aRef' = sessions[id]
            /\ aResp' = NoResponse
            /\ apc' = "status"
    /\ UNCHANGED <<nonAskVars, svars>>

\* the rest of ask on a session whose status is ready: 400 without a
\* manifest; else the LLM writes SQL, it is executed, and on success the
\* exchange is appended to the conversation (502 or 400 otherwise)
AskReady ==
    IF descs[aRef].manifest = "None"
    THEN /\ aResp' = [code |-> 400, detail |-> "Session has no data"]
         /\ UNCHANGED <<descs, aSql>>
    ELSE /\ aSql' = TRUE
         /\ \E code \in {200, 400, 502} :
               /\ aResp' = [code |-> code, detail |-> ""]
               /\ descs' = IF code = 200
                           THEN [descs EXCEPT ![aRef].conversation = Append(@, "question")]
                           ELSE descs

\* a status check that rejects a session in error only
AskCheckStatus_ErrorOnly ==
    /\ apc = "status"
    /\ IF descs[aRef].status = "error"
       THEN /\ apc' = "raise"
            /\ UNCHANGED <<descs, aResp, aSql>>
       ELSE /\ AskReady
            /\ apc' = "idle"
    /\ UNCHANGED <<nonAskVars, sessions, bpc, bref, dpc, dId, seen, removed, aReq, aRef>>

\* if session["status"] != "ready": ... ; otherwise the rest of ask
AskCheckStatus ==
    /\ apc = "status"
    /\ IF descs[aRef].status # "ready"
       THEN /\ apc' = "raise"
            /\ UNCHANGED <<descs, aResp, aSql>>
       ELSE /\ AskReady
            /\ apc' = "idle"
    /\ UNCHANGED <<nonAskVars, sessions, bpc, bref, dpc, dId, seen, removed, aReq, aRef>>

\* raise HTTPException(400, f"Session is not ready (status: {session['status']})"):
\* the message reads the status again
AskNotReady ==
    /\ apc = "raise"
    /\ aResp' = [code |-> 400, detail |-> descs[aRef].status]
    /\ apc' = "idle"
    /\ UNCHANGED <<nonAskVars, svars, aReq, aRef, aSql>>

AskSteps == \/ \E u \in Users : \E id \in SessionIds : AskLookup(u, id)
            \/ AskCheckStatus
            \/ AskNotReady

NextAsk == \/ \E u \in Users : \E id \in SessionIds : CreateSession(u, id)
           \/ BuildTasks
           \/ AskSteps

\* users create sessions and ask questions while the builds run
SpecAsk == InitAsk /\ [][NextAsk]_vars

\* =====================================================================
\* Properties of the enricher
\* =====================================================================

\* C1: the enricher watermark never decreases: every update_watermark call
\* writes a pair that is lexicographically >= the pair stored before it,
\* also while new spans are written to otel_traces.
C1_WatermarkNeverDecreases == [][KeyLeq(wm, wm')]_vars

\* C2: every span key of otel_traces strictly below the stored watermark has
\* a row in otel_traces_enriched.
C2_BelowWatermarkEnriched ==
    \A k \in source : KeyLess(k, wm) => k \in enriched

\* C3: every span that is ever written to otel_traces eventually has a row
\* with the same key in otel_traces_enriched (the enricher keeps running,
\* errors stop after MaxFaults).
C3_EverySpanEventuallyEnriched ==
    \A k \in Keys : (k \in source) ~> (k \in enriched)

\* C8: on an unmodified source with distinct keys, for every batch size the
\* enricher reaches a state where every source key is enriched and the
\* watermark is the maximum source key, and stays there.
C8_Converged ==
    /\ enriched = source
    /\ source # {} => wm = MaxKey(source)
    /\ source = {} => wm = Epoch

C8_ReachesMaxAndStays == <>[]C8_Converged

\* C8 witness: a source of more than one batch is fully enriched, the
\* watermark is at its maximum key and the pipeline is drained.
C8_Witness ==
    /\ Cardinality(source) > batchSize
    /\ enriched = source
    /\ wm = MaxKey(source)
    /\ queue = <<>>
    /\ cpc = "get"

\* C9: in a run without errors the keys passed to enrich_and_insert are
\* strictly increasing over all dequeued batches, so no span is enriched
\* twice (no key that already has an enriched row is passed again).
C9_StrictOrderNoDuplicate ==
    [][(cpc = "enrich" /\ cpc' # "enrich" /\ efaults' = 0)
         => /\ KeyLess(lastPassed, Head(cRows))
            /\ KeySet(cRows) \cap enriched = {}]_vars

\* C10: the watermark is written only after the enriched rows of the batch
\* were inserted; a cycle that raises leaves the stored watermark unchanged,
\* and a failed slice that is still past the watermark is fetched and
\* processed again later.
C10_WrittenAfterInsert ==
    [][/\ wm' # wm => /\ cpc = "update_wm"
                      /\ KeySet(cRows) \subseteq enriched
                      /\ wm' = Last(cRows)
       /\ efaults' # efaults => wm' = wm]_vars

C10_FailedSliceRetried ==
    (failedRows # <<>> /\ KeyLess(wm, Head(failedRows)))
        ~> (cRows = failedRows /\ cpc = "update_wm")

C11_FinalState ==
    /\ enriched = source
    /\ wm = IF source = {} THEN Epoch ELSE MaxKey(source)
    /\ queue = <<>>

C11_RestartSameFinalState == <>[]C11_FinalState /\ [](enriched \subseteq source)

\* C11 witness: the process was killed between the insert of a batch and the
\* update of the watermark, and the restarted process has enriched the whole
\* source of more than one batch.
C11_Witness ==
    /\ crashes > 0
    /\ crashedAt = "update_wm"
    /\ Cardinality(source) > batchSize
    /\ enriched = source
    /\ wm = MaxKey(source)
    /\ cpc = "get"

\* the batches that were fetched and that compute has not started: those in
\* the queue and the one the prefetch thread holds while it is in put
Unstarted == Len(queue) + (IF ppc = "put" THEN 1 ELSE 0)

CoreFields(row) == <<row.ServiceName, row.SpanName, row.SpanKind, row.StatusCode,
                     row.Duration, row.StatusMessage, row.SpanAttributes>>

\* the text t has the form the claim gives for row: the five fixed parts,
\* then a message part exactly when StatusMessage is not empty, then one part
\* per attribute in the stored order
TextFormOf(t, row) ==
    LET m == IF row.StatusMessage # "" THEN 1 ELSE 0
        n == Len(row.SpanAttributes)
    IN  /\ Len(t) = 5 + m + n
        /\ <<t[1].k, t[2].k, t[3].k, t[4].k, t[5].k>>
              = <<"service", "span", "kind", "status", "duration">>
        /\ (\E i \in 1..Len(t) : t[i].k = "message") <=> row.StatusMessage # ""
        /\ \A j \in 1..n : /\ t[5 + m + j].k = row.SpanAttributes[j].k
                            /\ t[5 + m + j].v = row.SpanAttributes[j].v

\* C31: two rows with the same ServiceName, SpanName, SpanKind, StatusCode,
\* Duration, StatusMessage and SpanAttributes get the same embedding text,
\* whatever their other columns (so processing a span again gives the same
\* text), and every text has the message part exactly when StatusMessage is
\* not empty and the attribute parts in stored order after the fixed parts.
C31_TextOfCoreFields ==
    /\ (textA # NoText /\ textB # NoText /\ CoreFields(spanA) = CoreFields(spanB))
          => textA = textB
    /\ textA # NoText => TextFormOf(textA, spanA)
    /\ textB # NoText => TextFormOf(textB, spanB)

\* C31 witness: two rows that differ only in a column the text does not
\* use, with a status message and two attributes, have got the same text.
C31_Witness ==
    /\ textA # NoText
    /\ textA = textB
    /\ spanA # spanB
    /\ spanA.StatusMessage # ""
    /\ Len(spanA.SpanAttributes) = MaxAttrs

\* the threads whose call is try_reserve on key
Reservers(key) == {t \in Threads : kop[t] = [op |-> "try_reserve", key |-> key]}

\* those of them whose call returned success
Succeeded(key) == {t \in Reservers(key) : kres[t].success}

Min(a, b) == IF a <= b THEN a ELSE b

\* C32: with try_reserve, get_stock and reset_for_drop calls interleaved in
\* any way, no quantity is ever below 0; and when the calls are over and none
\* of them was reset_for_drop, of the k try_reserve calls on a key that held
\* q units exactly min(k, q) succeeded, with pairwise distinct remaining
\* values.
C32_StockNeverNegative ==
    /\ \A key \in DOMAIN kstock : kstock[key] >= 0
    /\ ((\A t \in DOMAIN kpc : kpc[t] = "done" /\ kop[t].op # "reset_for_drop")
          => \A key \in StockKeys :
                /\ Cardinality(Succeeded(key))
                      = Min(Cardinality(Reservers(key)), StockGet(kstock0, key))
                /\ \A t, u \in Succeeded(key) :
                      t # u => kres[t].remaining # kres[u].remaining)

\* C32 witness: every thread called try_reserve on one key that held fewer
\* units than there are threads, and the calls are over: as many succeeded
\* as there were units.
C32_Witness ==
    /\ DOMAIN kpc = Threads
    /\ \A t \in Threads : kpc[t] = "done"
    /\ \E key \in StockKeys :
          /\ Cardinality(Reservers(key)) = MaxThreads
          /\ StockGet(kstock0, key) = MaxStock
          /\ Cardinality(Succeeded(key)) = MaxStock

\* the sequential enricher has found nothing more to fetch
SeqFinished == qpc = "sleep" /\ qrows = <<>>

\* the pipelined enricher has found nothing more to fetch and has processed
\* everything it fetched
PipelineFinished ==
    /\ ppc = "sleep"
    /\ pWm = wm
    /\ pRows = <<>>
    /\ queue = <<>>
    /\ cpc = "get"

\* a and b are two values the sequential watermark took one after the other
SeqConsecutive(a, b) ==
    \E i \in 1..(Len(qhist) - 1) : qhist[i] = a /\ qhist[i + 1] = b

\* C33: on the same unmodified source and with no failure, every change of
\* the pipelined enricher's watermark is a change the sequential enricher's
\* watermark made, from the same value to the same value; both start from
\* the same value, and when both have nothing more to fetch the two
\* watermarks are equal and the two enriched key sets are equal.
C33_SameWatermarksAndKeys ==
    /\ [][(efaults' = 0 /\ SeqFinished /\ wm' # wm) => SeqConsecutive(wm, wm')]_vars
    /\ [](qhist # <<>> => qhist[1] = Epoch)
    /\ []((efaults = 0 /\ SeqFinished /\ PipelineFinished)
            => (wm = qwm /\ wm = qhist[Len(qhist)] /\ enriched = qenriched))

\* C33 witness: both enrichers have finished a source of two batches or
\* more without failure; the pipelined one is at the last key of the source
\* with the whole source enriched.
C33_Witness ==
    /\ efaults = 0
    /\ SeqFinished
    /\ PipelineFinished
    /\ Len(qhist) > 2
    /\ enriched = source
    /\ wm = MaxKey(source)

\* =====================================================================
\* Properties of the loader
\* =====================================================================

HasEntry(s, k) == \E r \in wmTable[s] : r.filename = k /\ r.status \in {"done", "failed"}

HasFailedEntry(s, k) == \E r \in wmTable[s] : r.filename = k /\ r.status = "failed"

EntriesOf(table, k) == {r \in table : r.filename = k}

\* C4: for every object under a signal's prefix whose key ends in .json the
\* signal's watermark table eventually contains an entry with status done or
\* failed (the threads keep running, errors stop after MaxLoaderFaults); entries and
\* objects are never removed, so this is: eventually every such object has
\* its entry for good.
C4_AllListedRecorded ==
    \A s \in Signals : \A o \in store[s] :
        EndsWithJson(o.key) => HasEntry(s, o.key)

C4_EveryFileEventuallyRecorded == <>[]C4_AllListedRecorded

\* C4 witness: two .json objects, one of them undecodable, both recorded,
\* one as done and one as failed.
C4_Witness ==
    \E s \in Signals :
        /\ \E o \in store[s] : EndsWithJson(o.key) /\ ~o.ok
        /\ \E o \in store[s] : EndsWithJson(o.key) /\ o.ok /\ o.rows > 0
        /\ \A o \in store[s] : EndsWithJson(o.key) => HasEntry(s, o.key)
        /\ \E r \in wmTable[s] : r.status = "done"
        /\ \E r \in wmTable[s] : r.status = "failed"

\* C5: for every watermark entry with status done and row_count N, at least
\* N rows of that file are in the signal's warehouse table.
C5_DoneRowsInserted ==
    \A s \in Signals : \A r \in wmTable[s] :
        r.status = "done" => chRows[s][r.filename] >= r.row_count

\* C5 witness: a file of more than one batch is recorded done with all of
\* its rows inserted.
C5_Witness ==
    \E s \in Signals : \E r \in wmTable[s] :
        /\ r.status = "done"
        /\ r.row_count > LoaderBatch
        /\ chRows[s][r.filename] >= r.row_count

\* C6: a file that has a watermark entry gets no further warehouse insert and
\* no further watermark write in any poll cycle, and without errors every
\* listed file is inserted exactly once: its rows are in the table once when
\* it is recorded done, and never more than once.
C6_NoWorkOnRecordedFile ==
    [][\A s \in Signals : \A k \in ObjectKeys :
          k \in get_processed_files(wmTable[s])
              => /\ chRows'[s][k] = chRows[s][k]
                 /\ EntriesOf(wmTable'[s], k) = EntriesOf(wmTable[s], k)]_vars

C6_InsertedOnce ==
    lfaults = 0 =>
        \A s \in Signals : \A o \in store[s] :
            /\ chRows[s][o.key] <= o.rows
            /\ (\E r \in wmTable[s] : r.filename = o.key /\ r.status = "done")
                  => chRows[s][o.key] = o.rows

C6_ExactlyOncePerFile == C6_NoWorkOnRecordedFile /\ []C6_InsertedOnce

\* C6 witness: without errors, a poll cycle that found every listed file in
\* the watermark table has gone to the idle sleep, the rows of a file being
\* in the table once.
C6_Witness ==
    \E s \in Signals :
        /\ lfaults = 0
        /\ lpc[s] = "sleep_idle"
        /\ list_s3_files(store[s]) # {}
        /\ list_s3_files(store[s]) \subseteq processed[s]
        /\ \E o \in store[s] : o.rows > 0 /\ chRows[s][o.key] = o.rows

\* C7: a file with a failed watermark entry is treated as processed: it is
\* not in the new-file set of any later cycle, is never submitted for
\* download or inserted again, and its entry is never rewritten.
C7_FailedNotRetried ==
    [][\A s \in Signals : \A k \in ObjectKeys :
          HasFailedEntry(s, k)
              => /\ newFiles'[s] # newFiles[s] => k \notin newFiles'[s]
                 /\ fut'[s][k] # "running"
                 /\ chRows'[s][k] = chRows[s][k]
                 /\ EntriesOf(wmTable'[s], k) = EntriesOf(wmTable[s], k)]_vars

\* C7 witness: a later poll cycle has loaded the failed entry, listed the
\* file and found nothing new.
C7_Witness ==
    \E s \in Signals : \E k \in ObjectKeys :
        /\ HasFailedEntry(s, k)
        /\ k \in processed[s]
        /\ k \in list_s3_files(store[s])
        /\ newFiles[s] = {}
        /\ lpc[s] = "sleep_idle"

\* the files of the cycle of s are all recorded: each has a failed entry with
\* row count 0 and the error message, or a done entry with its rows in the
\* table; a file that does not decode has the failed entry
CycleRecorded(s) ==
    \A k \in newFiles[s] :
        /\ \/ \E r \in wmTable[s] : /\ r.filename = k
                                    /\ r.status = "failed"
                                    /\ r.row_count = 0
                                    /\ r.error_msg # ""
           \/ /\ \E r \in wmTable[s] : r.filename = k /\ r.status = "done"
              /\ chRows[s][k] >= ObjectAt(store[s], k).rows
        /\ ~ObjectAt(store[s], k).ok => HasFailedEntry(s, k)

C25_ThreadSurvivesErrors ==
    \A s \in Signals : lpc[s] # "dead"

\* the threads inside a call on the object-store client that signal_loop of s
\* created: the pool threads running download_and_parse(s3, key, ...), which
\* all receive that client, and the signal thread while it lists
S3ClientUsers(s) ==
    Cardinality({k \in ObjectKeys : fut[s][k] = "running"})
        + (IF lpc[s] = "list" THEN 1 ELSE 0)

\* the threads inside a call on the warehouse client that signal_loop of s
\* created: the signal thread in get_processed_files, insert_rows and
\* record_watermark
ChClientUsers(s) ==
    IF lpc[s] \in {"load", "insert", "record_done", "record_failed"} THEN 1 ELSE 0

\* C26: no object-store or warehouse client of the loader is in use by two
\* threads at the same time.
C26_ClientsNotShared ==
    \A s \in Signals : S3ClientUsers(s) <= 1 /\ ChClientUsers(s) <= 1

RECURSIVE Flatten(_)
\* the rows of a sequence of batches, in the order they were written
Flatten(bs) == IF bs = <<>> THEN <<>> ELSE Head(bs) \o Flatten(Tail(bs))

\* C28: the batches insert_rows has written are contiguous slices of the
\* file's rows in source order: together they are the first rows of the
\* list, each has at most B rows and each but the last exactly B; when
\* insert_rows returns they are the whole list, the shorter tail batch
\* included, and the file is recorded done; when an insert raises no further
\* batch is written and the file is recorded failed.
C28_ContiguousBatches ==
    /\ Len(Flatten(irBatches)) <= Len(irRows)
    /\ Flatten(irBatches) = SubSeq(irRows, 1, Len(Flatten(irBatches)))
    /\ \A j \in 1..Len(irBatches) :
          /\ Len(irBatches[j]) >= 1
          /\ Len(irBatches[j]) <= irB
          /\ j < Len(irBatches) => Len(irBatches[j]) = irB
    /\ irPc \in {"record_done", "done"} => Flatten(irBatches) = irRows
    /\ irPc \in {"record_failed", "failed"}
          => /\ Len(Flatten(irBatches)) < Len(irRows)
             /\ \A j \in 1..Len(irBatches) : Len(irBatches[j]) = irB

\* C28 witness: a file of more than one batch is recorded done, its last
\* batch being shorter than B.
C28_Witness ==
    /\ irPc = "done"
    /\ Len(irBatches) > 1
    /\ Len(irBatches[Len(irBatches)]) < irB
    /\ Flatten(irBatches) = irRows

\* the objects under the prefix of s that decode to no row at all
EmptyFiles(s) == {o \in store[s] : EndsWithJson(o.key) /\ o.ok /\ o.rows = 0}

\* C29: a file that decodes to zero rows causes no warehouse insert (no call
\* of ch.insert is made for it and the table has no row of it); its entry
\* has row_count 0 and, when no error was raised, status done; once it has
\* its entry it is not submitted again: it has one entry and no future.
C29_EmptyFileDone ==
    \A s \in Signals :
        /\ lpc[s] = "insert" => ObjectAt(store[s], curKey[s]).rows > 0
        /\ \A o \in EmptyFiles(s) :
              /\ chRows[s][o.key] = 0
              /\ \A r \in EntriesOf(wmTable[s], o.key) :
                    /\ r.row_count = 0
                    /\ lfaults = 0 => r.status = "done"
              /\ Cardinality(EntriesOf(wmTable[s], o.key)) <= 1
              /\ HasEntry(s, o.key) => fut[s][o.key] \in {"none", "taken"}

\* C29 witness: a file of zero rows is recorded done with row count 0, and a
\* later poll cycle has found nothing new and gone to the idle sleep.
C29_Witness ==
    \E s \in Signals : \E o \in EmptyFiles(s) :
        /\ \E r \in wmTable[s] : r.filename = o.key /\ r.status = "done" /\ r.row_count = 0
        /\ lpc[s] = "sleep_idle"
        /\ o.key \in processed[s]
        /\ fut[s][o.key] = "none"

\* C30: an object whose key does not end in .json is never among the new
\* files of a poll cycle: no downloader-parser is ever submitted for it, no
\* row of it is inserted and no watermark entry is written for it.
C30_NonJsonIgnored ==
    \A s \in Signals : \A k \in ObjectKeys :
        ~EndsWithJson(k)
            => /\ k \notin newFiles[s]
               /\ fut[s][k] = "none"
               /\ chRows[s][k] = 0
               /\ EntriesOf(wmTable[s], k) = {}

\* C30 witness: an object whose key does not end in .json is under the
\* prefix while a poll cycle has processed and recorded a .json file of the
\* same prefix.
C30_Witness ==
    \E s \in Signals :
        /\ \E o \in store[s] : ~EndsWithJson(o.key) /\ o.rows > 0
        /\ \E r \in wmTable[s] : r.status = "done" /\ r.row_count > 0
        /\ lpc[s] = "sleep_busy"

\* the signal thread of s is between two calls of process_files_concurrent
BetweenCycles(s) == lpc[s] \in {"load", "list", "submit", "sleep_busy", "sleep_idle"}

\* the step writes to the warehouse table or the watermark table of s
WritesTables(s) == chRows'[s] # chRows[s] \/ wmTable'[s] # wmTable[s]

\* the step is one of the signal thread of s on the file it has taken: no
\* future of a downloader-parser changes state in it
BySignalThread(s) ==
    /\ lpc[s] \in {"insert", "record_done", "record_failed"}
    /\ curKey[s] # NoKey
    /\ fut[s][curKey[s]] = "taken"
    /\ fut'[s] = fut[s]

\* the step adds one entry to the watermark table of s, for the file the
\* signal thread has taken, and ends the handling of that file
WritesOneEntry(s) ==
    /\ \E r \in wmTable'[s] : /\ r.filename = curKey[s]
                               /\ wmTable'[s] = wmTable[s] \cup {r}
    /\ curKey'[s] = NoKey
    /\ lpc'[s] = "collect"

\* C34: a poll cycle of a signal starts only when no downloader-parser of
\* the previous cycle is left (no future exists between two cycles); every
\* new file of a cycle has one future and no other file has one; every
\* write to the warehouse table and to the watermark table is a step of the
\* signal thread; and a file gets at most one watermark entry per cycle: an
\* entry is written only for the file the signal thread has taken, the write
\* ends the handling of the file, and a file is taken once in a cycle (only
\* a finished future is taken, and a taken one stays so until the cycle
\* ends).
C34_SingleWriter ==
    /\ [](\A s \in Signals :
            /\ BetweenCycles(s) => fut[s] = NoFutures
            /\ ~BetweenCycles(s) /\ lpc[s] # "off"
                 => \A k \in ObjectKeys : fut[s][k] # "none" <=> k \in newFiles[s])
    /\ [][\A s \in Signals :
            /\ WritesTables(s) => BySignalThread(s)
            /\ wmTable'[s] # wmTable[s] => WritesOneEntry(s)
            /\ (curKey'[s] # curKey[s] /\ curKey'[s] # NoKey)
                 => /\ fut[s][curKey'[s]] \in {"ok", "exc"}
                    /\ fut'[s][curKey'[s]] = "taken"
            /\ \A k \in ObjectKeys :
                 fut[s][k] = "taken" /\ fut'[s][k] # "taken"
                    => fut'[s] = NoFutures /\ lpc'[s] \in {"sleep_busy", "sleep_idle"}]_vars

\* C34 witness: a cycle of two new files is over, both files have their
\* watermark entry, and the signal thread is at the start of its next cycle.
C34_Witness ==
    /\ lpc["traces"] = "load"
    /\ Cardinality(newFiles["traces"]) = 2
    /\ \A k \in newFiles["traces"] : \E r \in wmTable["traces"] : r.filename = k

\* the tables, watermark entries and progress of the pipeline of s
PipelineState(s) ==
    <<wmTable[s], chRows[s], lpc[s], processed[s], newFiles[s], fut[s], curKey[s],
      batchStart[s]>>

\* keys of the objects under the prefix of s
KeysUnder(s) == {o.key : o \in store[s]}

\* C35: a step of one signal's pipeline, an error in it included, leaves
\* the warehouse table, the watermark table and the progress of the other
\* two signals as they were (so a pipeline that stalls holds no other one
\* up), and what a pipeline has in its tables and in its local state comes
\* from its own prefix and its own watermark table: rows and entries only
\* for objects under its prefix, processed only from its watermark table.
C35_PipelinesIndependent ==
    /\ [][\A s \in Signals :
            PipelineState(s)' # PipelineState(s)
               => \A x \in Signals \ {s} : PipelineState(x)' = PipelineState(x)]_vars
    /\ [](\A s \in Signals :
            /\ \A r \in wmTable[s] : r.filename \in KeysUnder(s)
            /\ \A k \in ObjectKeys : chRows[s][k] > 0 => k \in KeysUnder(s)
            /\ processed[s] \subseteq {r.filename : r \in wmTable[s]}
            /\ newFiles[s] \subseteq KeysUnder(s))

\* C35 witness: the traces pipeline has loaded its file and recorded it
\* while the logs pipeline, hit by an error, has loaded nothing and the
\* metrics pipeline has recorded its file as failed.
C35_Witness ==
    /\ \E r \in wmTable["traces"] : r.status = "done"
    /\ \E k \in ObjectKeys : chRows["traces"][k] = MaxRows
    /\ lfaults > 0
    /\ wmTable["logs"] = {}
    /\ lpc["logs"] = "sleep_idle"
    /\ \E r \in wmTable["metrics"] : r.status = "failed"

\* =====================================================================
\* Properties of the session registry
\* =====================================================================

\* C12: every descriptor is created with status building, its status changes
\* at most once, from building to ready or to error, and a descriptor that
\* is ready or error keeps its status.
C12_StatusOnlyForward ==
    [][\A o \in Descriptors :
          /\ (descs[o] = NoDesc /\ descs'[o] # NoDesc)
                 => descs'[o].status = "building"
          /\ (descs[o] # NoDesc /\ descs'[o].status # descs[o].status)
                 => /\ descs[o].status = "building"
                    /\ descs'[o].status \in {"ready", "error"}]_vars

\* C12 witness: the build task of a created session has resolved and the
\* descriptor has left building.
C12_Witness ==
    \E o \in Descriptors : /\ bpc[o] = "done"
                            /\ descs[o].status = "error"
                            /\ sessions[descs[o].id] = o

\* C13: the background task of every created session whose builder steps do
\* not fail ends with the descriptor's status ready and the builder's
\* manifest stored in it (no builder step fails in this model: none is
\* reached).
C13_ResolvedBuildIsReady ==
    \A o \in Descriptors :
        bpc[o] = "done" => /\ descs[bref[o]].status = "ready"
                           /\ descs[bref[o]].manifest # "None"

\* C14: no exception leaves the background task, whatever the interleaving
\* of create, delete and the task; a failed build ends with status error and
\* the exception message in the descriptor.
C14_NoExceptionEscapes ==
    \A o \in Descriptors :
        /\ bpc[o] # "raised"
        /\ (bpc[o] = "done" /\ descs[bref[o]].status # "ready")
               => /\ descs[bref[o]].status = "error"
                  /\ descs[bref[o]].error # "None"

\* C15: delete_session waits for the build task: when it removes a
\* descriptor from the registry the task of that session has resolved, and
\* no step of a task runs for a session that delete has removed.
C15_DeleteWaitsForBuild ==
    [][/\ \A id \in SessionIds :
              (sessions[id] # 0 /\ sessions'[id] = 0)
                  => bpc[sessions[id]] \in {"done", "raised"}
       /\ \A o \in removed : bpc'[o] = bpc[o]]_vars

\* C16: once delete_session by the owner has removed a session, in any
\* status, the descriptor is out of the registry and every later
\* get_session(id) by the owner is answered 404 (the registry never creates
\* a database session_<id> or a session file that could be left behind).
C16_DeletedIsGone ==
    \A o \in removed :
        /\ sessions[descs[o].id] # o
        /\ get_session(sessions, descs, descs[o].id, descs[o].user).code = 404

\* C17: only the creator observes or changes a session: a response shows a
\* descriptor only to the user who created it, a registry entry changes only
\* when its owner's delete_session removes it, and list_sessions for a user
\* shows exactly the sessions that user created and did not delete.
C17_OnlyOwnerObserves == \A p \in seen : descs[p[2]].user = p[1]

C17_OnlyOwnerMutates ==
    [][\A id \in SessionIds :
          (sessions[id] # 0 /\ sessions'[id] # sessions[id])
              => \E u \in Users : /\ dpc[u] = "del"
                                   /\ dpc'[u] = "idle"
                                   /\ dId[u] = id
                                   /\ descs[sessions[id]].user = u]_vars

C17_ListExact ==
    \A u \in Users :
        list_sessions(sessions, descs, u).body
            = {o \in Built(descs) : descs[o].user = u} \ removed

C17_OnlyCreator ==
    /\ []C17_OnlyOwnerObserves
    /\ C17_OnlyOwnerMutates
    /\ []C17_ListExact

\* C18: registry accesses are serialized, the build task's writes of status
\* and error included: no handler can read a registered descriptor between
\* the two writes, so a registered descriptor has an error message exactly
\* when its status is error.
C18_MutationSerialized ==
    \A id \in SessionIds :
        sessions[id] # 0
            => (descs[sessions[id]].status = "error"
                    <=> descs[sessions[id]].error # "None")

\* C36: create never replaces an existing session: a descriptor that is in
\* the registry under an id stays there under that id until it is deleted (no
\* create stores another descriptor under the id of one that is registered).
C36_CreateNeverReplaces ==
    [][\A id \in SessionIds :
          (sessions[id] # 0 /\ sessions'[id] # 0) => sessions'[id] = sessions[id]]_vars

\* the ask request in flight is on a session whose status is not ready
OnNotReady == apc \in {"status", "raise"} /\ descs[aRef].status # "ready"

\* C39: ask on a session of the caller whose status is building or error
\* goes from the status check straight to the rejection, the response is a
\* 400 that reports the status of the session, no SQL was generated or
\* executed for the request, and no step of the request changes the
\* registry or any field of a descriptor.
C39_AskNotReadyRejected ==
    /\ [][(OnNotReady /\ apc' # apc)
            => /\ apc = "status" => apc' = "raise"
               /\ apc = "raise" => /\ apc' = "idle"
                                   /\ aResp'.code = 400
                                   /\ aResp'.detail = descs[aRef].status
                                   /\ aResp'.detail \in {"building", "error"}
               /\ ~aSql'
               /\ descs' = descs
               /\ sessions' = sessions]_vars
    /\ [](apc \in {"status", "raise"} => ~aSql)

\* C39 witness: while another session is still building, an ask of the
\* owner of a session whose build failed has been answered 400 with the
\* status error, and the conversation of that session is still empty.
C39_Witness ==
    /\ apc = "idle"
    /\ aResp.code = 400
    /\ aResp.detail = "error"
    /\ \E o \in Descriptors : descs[o].status = "building"
    /\ descs[aRef].user = aReq.user
    /\ descs[aRef].conversation = <<>>

\* =====================================================================
\* Properties of the session builder
\* =====================================================================
\* MAX_ROWS_PER_TABLE, the row cap R, scaled to the size of the master
RowCap == MaxMasterRows - 1

\* the rows of the master that match the filters of the request, for table t
Matching(t) ==
    {r \in master : /\ r[1] = t
                     /\ t \in req.signal_types
                     /\ (req.services = {} \/ r[2] \in req.services)
                     /\ req.start <= r[3]
                     /\ r[3] <= req.end}

\* the rows of session table t, none when the table does not exist
SessionRows(t) == IF stables[t] = NoTable THEN {} ELSE stables[t]

Smaller(a, b) == IF a < b THEN a ELSE b

\* C19: after build_session returns, every session table holds only rows of
\* the master that match the request (service, window, signal), and holds
\* all of them up to the row cap R.
C19_ExactlyMatchingRows ==
    bstep = "returned"
        => \A t \in Signals :
              /\ SessionRows(t) \subseteq Matching(t)
              /\ Cardinality(SessionRows(t)) = Smaller(RowCap, Cardinality(Matching(t)))

\* C20: after build_session and then drop_session, whether the build returned
\* or raised, nothing of the session is left: no database, no table, no copied
\* part and no shadow backup on the master volume.
C20_DropLeavesNothing ==
    bstep = "dropped"
        => /\ ~sdbExists
           /\ \A t \in Signals : /\ stables[t] = NoTable
                                 /\ detached[t] = {}
                                 /\ shadow[t] = {}

\* the window of the request holds no row of the master, in any table
EmptyWindow == \A r \in master : r[3] < req.start \/ r[3] > req.end

\* C21: a build whose window holds no source data returns a count of 0 for
\* every requested signal and an empty manifest.
C21_EmptyWindowEmptyResult ==
    (bstep = "returned" /\ EmptyWindow)
        => /\ \A s \in req.signal_types : counts[s] = 0
           /\ manifest = <<>>

\* C37: when build_session has ended, by returning or by raising, no shadow
\* backup session_<id> remains on the master data volume.
C37_NoShadowAfterBuild ==
    bstep \in {"returned", "raised"} => \A t \in Signals : shadow[t] = {}

\* C38: in the result of build_session a table is in the manifest exactly
\* when its signal was requested and its count is above 0, its row_count is
\* the count reported for the signal, and it has min(3, row_count) sample rows.
C38_ManifestAgreesWithCounts ==
    bstep = "returned"
        => /\ DOMAIN manifest = {t \in req.signal_types : counts[t] > 0}
           /\ \A t \in DOMAIN manifest :
                 /\ manifest[t].row_count = counts[t]
                 /\ manifest[t].sample_rows = Smaller(3, manifest[t].row_count)

\* =====================================================================
\* Shutdown
\* =====================================================================
\* C22: when a signal thread has terminated after a shutdown signal, it has
\* completed the poll cycle it was in: every file whose downloader-parser
\* was in flight has a watermark entry.
C22_ShutdownCompletesCycle ==
    \A s \in Signals :
        lpc[s] = "killed"
            => \A k \in ObjectKeys : fut[s][k] # "none" => HasEntry(s, k)

\* C23: after a shutdown signal the compute loop has finished the batch it
\* was processing (it held no batch that was not both inserted and covered by
\* the watermark), and the prefetch thread can still reach the test of
\* stop_event: it is not blocked in put on a full queue that nobody reads.
C23_ShutdownFinishesBatch ==
    stop_event_is_set
        => /\ crashedAt = "get"
           /\ ~(ppc = "put" /\ Len(queue) = QueueMaxSize)

====
